---- MODULE Spec2Model ----
(***************************************************************************)
(* Starlight::Core::Device (src/src/core/device.cpp): the frame operation  *)
(* Device::Impl::Clear driven by one CPU thread against a GPU and a        *)
(* presentation engine that run asynchronously, and the construction of    *)
(* Device::Impl.                                                           *)
(***************************************************************************)
EXTENDS Integers, Sequences, FiniteSets, TLC

(***************************************************************************)
(* Bounds of the model.                                                    *)
(***************************************************************************)
NumImages == 2
MaxCalls == 3
MaxDevices == 2
MaxFamilies == 2
MaxQueueCount == 3
MaxMinImageCount == 3
MaxMaxImageCount == 4
NumThreads == 2
MaxSets == 2
MaxMemoryTypes == 3

Images == 0 .. (NumImages - 1)

\* Any value of the uninitialised local imageIndex that is no valid index.
OutOfRange == NumImages

VARIABLES
    pc,          \* Clear: the next call Clear makes ("idle" between calls)
    calls,       \* number of Clear calls started so far
    imageIndex,  \* Clear's local std::uint32_t imageIndex
    fence,       \* presentFences[i]: TRUE when signaled
    exec,        \* submissions of commandBuffersGraphics[i] still executing
    sigpend,     \* submissions of index i finished, fence signal pending
    image,       \* swapchain image i: "free", "acquired" or "presented"
    steps,       \* the calls the current Clear has made, with their index
    failedStep,  \* first call of the current Clear that reported a failure
    lastResult   \* how the latest Clear ended: "none", "running", "ok",
                 \* "error" (an exception reached the caller), "crashed"

VARIABLES
    semPC,       \* presentCompletedSemaphore: 0 when unsignaled, else the
                 \* Clear call whose acquire signaled it
    semRC,       \* renderCompletedSemaphore: 0 when unsignaled, else the
                 \* Clear call whose submission signaled it
    acq,         \* per Clear call, the semaphore signal of its acquire:
                 \* "none", "pending", "done"
    sub,         \* per Clear call, its submission: "none", "waiting" (for
                 \* presentCompletedSemaphore), "running", "done"
    prs,         \* per Clear call, its present: "none", "waiting" (for
                 \* renderCompletedSemaphore), "done"
    cimg,        \* per Clear call, the image index of its submission
    crossCycle   \* TRUE once a wait has consumed the signal of another call

semVars == <<semPC, semRC, acq, sub, prs, cimg, crossCycle>>

frameVars == <<pc, calls, imageIndex, fence, exec, sigpend, image, steps,
               failedStep, lastResult, semVars>>

VARIABLES
    window,          \* Impl::window: TRUE when a window is attached
    host,            \* what the driver enumerates: the accelerators
    cpc,             \* Impl::Impl: the next construction step
    phyDevice,       \* index into host of the chosen device, 0 when none
    handles,         \* number of live handles each owning member holds
    queues,          \* queueGraphics/Compute/Transfer: <<family, index>>
    queueInfos,      \* the queue-create list given to createDeviceUnique
    surfaceCaps,     \* what getSurfaceCapabilitiesKHR reported
    requestedImages, \* info.minImageCount given to createSwapchainKHRUnique
    numImages,       \* number of images of the swapchain
    evlog,           \* creations and destructions of GPU objects, in order
    ctorOutcome,     \* "running", "ok", "threw", "crashed"
    ctorError        \* the error that ended the construction

VARIABLES
    platformExts,    \* what glfwGetRequiredInstanceExtensions returns to
                     \* this process: the names, <<>> for NULL
    extNames,        \* the extension names given to createInstanceUnique
    extQueries,      \* calls of glfwGetRequiredInstanceExtensions so far
    memoryTypes,     \* memoryTypes[i] of the chosen accelerator: TRUE when
                     \* type i is device-local
    memoryTypeBits,  \* requirements.memoryTypeBits of the depth/stencil image
    memoryTypeIndex  \* the memory type the depth/stencil memory is from

platformVars == <<platformExts, extNames, extQueries, memoryTypes,
                  memoryTypeBits, memoryTypeIndex>>

VARIABLES
    ipc,             \* CreateInstance: the next thing it does
    snap,            \* what the Config getters returned to CreateInstance
    appInfo          \* the vk::ApplicationInfo given to createInstanceUnique

instanceVars == <<ipc, snap, appInfo>>

ctorVars == <<window, host, cpc, phyDevice, handles, queues, queueInfos,
              surfaceCaps, requestedImages, numImages, evlog, ctorOutcome,
              ctorError, platformVars, instanceVars>>

VARIABLES
    appName,    \* Config: static std::string appName
    appMajor,   \* Config: static std::uint16_t appMajor
    appMinor,   \* Config: static std::uint16_t appMinor
    appPatch,   \* Config: static std::uint16_t appPatch
    writer,     \* appMutex: the thread holding it exclusively, 0 when none
    readers,    \* appMutex: the threads holding it shared
    tpc,        \* each thread's position in the Config function it runs
    targ,       \* each thread's AppInfo argument, and what its caller gave
    tfield,     \* the field the getter a thread runs returns
    tret,       \* what the latest getter of each thread returned
    setLog      \* the caller's values of the SetAppInfo calls that returned

configVars == <<appName, appMajor, appMinor, appPatch, writer, readers, tpc,
                targ, tfield, tret, setLog>>

vars == <<frameVars, ctorVars, configVars>>

(***************************************************************************)
(* Config (the application-info record and its lock), config.cpp in        *)
(* src/src/core/version.hpp lines 84-124, and struct AppInfo in            *)
(* src/unnamed/part_000 lines 41-46.  Any number of threads call the       *)
(* getters and SetAppInfo.                                                 *)
(***************************************************************************)
Threads == 1 .. NumThreads

\* The widths of the bit-fields of AppInfo and of std::uint16_t.
MajorBits == 10
MinorBits == 10
PatchBits == 12
UInt16Bits == 16

\* Version::Major, Version::Minor, Version::Patch.
VersionMajor == 0
VersionMinor == 0
VersionPatch == 0

BitField_NoTruncation(v, bits) == v

\* A value stored to a bit-field of the given width keeps its low bits.
BitField(v, bits) == v % (2 ^ bits)

UInt16_AsByte(v) == v % (2 ^ 8)

\* The conversion of a std::size_t bit-field value to std::uint16_t.
UInt16(v) == v % (2 ^ UInt16Bits)

\* What the callers of SetAppInfo give for name, major, minor and patch: the
\* values at both ends of the declared ranges, and values past them.
CallerInfos ==
    { [name |-> "App", major |-> 1, minor |-> 0, patch |-> 3],
      [name |-> "Demo", major |-> 2 ^ MajorBits - 1,
       minor |-> 2 ^ MinorBits - 1, patch |-> 2 ^ PatchBits - 1],
      [name |-> "", major |-> 2 ^ MajorBits + 1, minor |-> 2 ^ MinorBits,
       patch |-> 2 ^ UInt16Bits + 2 ^ PatchBits + 7] }

\* The AppInfo object built from the caller's values.
AppInfo(c) ==
    [name  |-> c.name,
     major |-> BitField(c.major, MajorBits),
     minor |-> BitField(c.minor, MinorBits),
     patch |-> BitField(c.patch, PatchBits)]

Fields == {"name", "major", "minor", "patch"}

NoArg == [raw |-> <<>>, info |-> <<>>]

NoRet == [field |-> "none", value |-> 0, epoch |-> 0]

\* CreateInstance has called no getter.
NoSnap == [f \in Fields |-> NoRet]

\* Lines 90-94.
ConfigInit ==
    /\ appName = "Starlight"
    /\ appMajor = VersionMajor
    /\ appMinor = VersionMinor
    /\ appPatch = VersionPatch
    /\ writer = 0
    /\ readers = {}
    /\ tpc = [t \in Threads |-> "idle"]
    /\ targ = [t \in Threads |-> NoArg]
    /\ tfield = [t \in Threads |-> "none"]
    /\ tret = [t \in Threads |-> NoRet]
    /\ setLog = <<>>

CanLockShared_NoWait == TRUE

\* std::shared_lock lock(appMutex) returns while no thread owns the mutex
\* exclusively.
CanLockShared == writer = 0

\* std::unique_lock lock(appMutex) returns while no thread owns the mutex.
CanLockUnique == writer = 0 /\ readers = {}

\* The variable a getter returns.
Stored(f) ==
    CASE f = "name"  -> appName
      [] f = "major" -> appMajor
      [] f = "minor" -> appMinor
      [] OTHER       -> appPatch

\* Lines 97, 102, 107, 112: a getter takes the shared lock.
GetLock(t, f) ==
    /\ tpc[t] = "idle"
    /\ CanLockShared
    /\ readers' = readers \cup {t}
    /\ tpc' = [tpc EXCEPT ![t] = "get"]
    /\ tfield' = [tfield EXCEPT ![t] = f]
    /\ UNCHANGED <<appName, appMajor, appMinor, appPatch, writer, targ, tret,
                   setLog>>
    /\ UNCHANGED <<frameVars, ctorVars>>

\* Lines 98, 103, 108, 113: the getter copies the variable, releases the
\* lock and returns the copy.
GetReturn(t) ==
    /\ tpc[t] = "get"
    /\ tret' = [tret EXCEPT ![t] = [field |-> tfield[t],
                                    value |-> Stored(tfield[t]),
                                    epoch |-> Len(setLog)]]
    /\ readers' = readers \ {t}
    /\ tpc' = [tpc EXCEPT ![t] = "got"]
    /\ UNCHANGED <<appName, appMajor, appMinor, appPatch, writer, targ, tfield,
                   setLog>>
    /\ UNCHANGED <<frameVars, ctorVars>>

\* The caller of the getter has used the value it was given.
GetDone(t) ==
    /\ tpc[t] = "got"
    /\ tret' = [tret EXCEPT ![t] = NoRet]
    /\ tfield' = [tfield EXCEPT ![t] = "none"]
    /\ tpc' = [tpc EXCEPT ![t] = "idle"]
    /\ UNCHANGED <<appName, appMajor, appMinor, appPatch, writer, readers,
                   targ, setLog>>
    /\ UNCHANGED <<frameVars, ctorVars>>

\* Line 117: SetAppInfo takes the exclusive lock.
SetLock(t, c) ==
    /\ tpc[t] = "idle"
    /\ Len(setLog) < MaxSets
    /\ CanLockUnique
    /\ writer' = t
    /\ targ' = [targ EXCEPT ![t] = [raw |-> c, info |-> AppInfo(c)]]
    /\ tpc' = [tpc EXCEPT ![t] = "name"]
    /\ UNCHANGED <<appName, appMajor, appMinor, appPatch, readers, tfield,
                   tret, setLog>>
    /\ UNCHANGED <<frameVars, ctorVars>>

\* Line 118.
SetName(t) ==
    /\ tpc[t] = "name"
    /\ appName' = targ[t].info.name
    /\ tpc' = [tpc EXCEPT ![t] = "major"]
    /\ UNCHANGED <<appMajor, appMinor, appPatch, writer, readers, targ, tfield,
                   tret, setLog>>
    /\ UNCHANGED <<frameVars, ctorVars>>

\* Line 119.
SetMajor(t) ==
    /\ tpc[t] = "major"
    /\ appMajor' = UInt16(targ[t].info.major)
    /\ tpc' = [tpc EXCEPT ![t] = "minor"]
    /\ UNCHANGED <<appName, appMinor, appPatch, writer, readers, targ, tfield,
                   tret, setLog>>
    /\ UNCHANGED <<frameVars, ctorVars>>

\* Line 120.
SetMinor(t) ==
    /\ tpc[t] = "minor"
    /\ appMinor' = UInt16(targ[t].info.minor)
    /\ tpc' = [tpc EXCEPT ![t] = "patch"]
    /\ UNCHANGED <<appName, appMajor, appPatch, writer, readers, targ, tfield,
                   tret, setLog>>
    /\ UNCHANGED <<frameVars, ctorVars>>

\* Line 121.
SetPatch(t) ==
    /\ tpc[t] = "patch"
    /\ appPatch' = UInt16(targ[t].info.patch)
    /\ tpc' = [tpc EXCEPT ![t] = "unlock"]
    /\ UNCHANGED <<appName, appMajor, appMinor, writer, readers, targ, tfield,
                   tret, setLog>>
    /\ UNCHANGED <<frameVars, ctorVars>>

\* Line 122: the lock is released and SetAppInfo returns.
SetUnlock(t) ==
    /\ tpc[t] = "unlock"
    /\ writer' = IF writer = t THEN 0 ELSE writer
    /\ setLog' = Append(setLog, targ[t].raw)
    /\ targ' = [targ EXCEPT ![t] = NoArg]
    /\ tpc' = [tpc EXCEPT ![t] = "idle"]
    /\ UNCHANGED <<appName, appMajor, appMinor, appPatch, readers, tfield,
                   tret>>
    /\ UNCHANGED <<frameVars, ctorVars>>

(***************************************************************************)
(* Device::Impl::Clear, lines 337-376.  The calls are made in the order of *)
(* the source text.                                                        *)
(***************************************************************************)
StepAfter_SubmitBeforeReset(s) ==
    CASE s = "acquire" -> "wait"
      [] s = "wait"    -> "record"
      [] s = "record"  -> "submit"
      [] s = "submit"  -> "reset"
      [] s = "reset"   -> "present"
      [] OTHER         -> "idle"

StepAfter(s) ==
    CASE s = "acquire" -> "wait"
      [] s = "wait"    -> "record"
      [] s = "record"  -> "reset"
      [] s = "reset"   -> "submit"
      [] s = "submit"  -> "present"
      [] OTHER         -> "idle"

InFlight(i) == exec[i] + sigpend[i]

\* The Clear calls, numbered in the order they are made.
Cycles == 1 .. MaxCalls

Log(name, i) == Append(steps, <<name, i>>)

NoteFailure(name) == IF failedStep = "none" THEN name ELSE failedStep

\* The indices presentFences[...] can be read at: those of the fences the
\* device holds.  A headless device holds none.
FenceIndices_AsWindowed == Images

FenceIndices == 0 .. (handles["presentFences"] - 1)

\* Clear is called on a constructed device.  The frame variables describe
\* NumImages images, so a windowed device is one whose surface fixes the
\* image count at NumImages.
ClearModelled ==
    /\ cpc = "ready"
    /\ window => /\ numImages = NumImages
                 /\ surfaceCaps = [minImageCount |-> NumImages,
                                   maxImageCount |-> NumImages]

FrameInit ==
    /\ pc = "idle"
    /\ calls = 0
    /\ imageIndex = OutOfRange
    /\ fence = [i \in Images |-> TRUE]
    /\ exec = [i \in Images |-> 0]
    /\ sigpend = [i \in Images |-> 0]
    /\ image = [i \in Images |-> "free"]
    /\ steps = <<>>
    /\ failedStep = "none"
    /\ lastResult = "none"
    /\ semPC = 0
    /\ semRC = 0
    /\ acq = [c \in Cycles |-> "none"]
    /\ sub = [c \in Cycles |-> "none"]
    /\ prs = [c \in Cycles |-> "none"]
    /\ cimg = [c \in Cycles |-> OutOfRange]
    /\ crossCycle = FALSE

\* Line 339 succeeds; imageIndex (line 340) is left uninitialised.
ClearCall ==
    /\ pc = "idle"
    /\ ClearModelled
    /\ lastResult # "crashed"
    /\ calls < MaxCalls
    /\ calls' = calls + 1
    /\ pc' = "acquire"
    /\ \E g \in 0 .. OutOfRange : imageIndex' = g
    /\ steps' = <<>>
    /\ failedStep' = "none"
    /\ lastResult' = "running"
    /\ UNCHANGED <<ctorVars, configVars>>
    /\ UNCHANGED semVars
    /\ UNCHANGED <<fence, exec, sigpend, image>>

\* Line 339: getSurfaceCapabilitiesKHR (enhanced mode) throws.
ClearCapsThrow ==
    /\ pc = "idle"
    /\ ClearModelled
    /\ lastResult # "crashed"
    /\ calls < MaxCalls
    /\ calls' = calls + 1
    /\ steps' = <<>>
    /\ failedStep' = "caps"
    /\ lastResult' = "error"
    /\ UNCHANGED <<ctorVars, configVars>>
    /\ UNCHANGED semVars
    /\ UNCHANGED <<pc, imageIndex, fence, exec, sigpend, image>>

\* Line 339 on a device without a surface: the query is made with a null
\* surface handle and the process may crash in the driver.
ClearNullSurfaceCrash ==
    /\ pc = "idle"
    /\ ClearModelled
    /\ handles["surface"] = 0
    /\ lastResult # "crashed"
    /\ calls < MaxCalls
    /\ calls' = calls + 1
    /\ steps' = <<>>
    /\ failedStep' = "caps"
    /\ lastResult' = "crashed"
    /\ UNCHANGED <<ctorVars, configVars>>
    /\ UNCHANGED semVars
    /\ UNCHANGED <<pc, imageIndex, fence, exec, sigpend, image>>

\* Line 341: acquireNextImageKHR returns an image; blocks while none is free.
AcquireOk ==
    /\ pc = "acquire"
    /\ handles["swapchain"] > 0
    /\ \E i \in Images :
          /\ image[i] = "free"
          /\ image' = [image EXCEPT ![i] = "acquired"]
          /\ imageIndex' = i
          /\ steps' = Log("acquire", i)
    /\ pc' = StepAfter("acquire")
    /\ UNCHANGED <<ctorVars, configVars>>
    /\ acq' = [acq EXCEPT ![calls] = "pending"]
    /\ UNCHANGED <<semPC, semRC, sub, prs, cimg, crossCycle>>
    /\ UNCHANGED <<calls, fence, exec, sigpend, failedStep, lastResult>>

\* Line 341: the pointer overload returns a vk::Result that is discarded.
AcquireFail ==
    /\ pc = "acquire"
    /\ steps' = Log("acquire", imageIndex)
    /\ failedStep' = NoteFailure("acquire")
    /\ pc' = StepAfter("acquire")
    /\ UNCHANGED <<ctorVars, configVars>>
    /\ UNCHANGED semVars
    /\ UNCHANGED <<calls, imageIndex, fence, exec, sigpend, image, lastResult>>

\* Line 341 on a device without a swapchain: the call is made with a null
\* swapchain handle and the process may crash in the driver.
AcquireNullSwapchainCrash ==
    /\ pc = "acquire"
    /\ handles["swapchain"] = 0
    /\ steps' = Log("acquire", imageIndex)
    /\ failedStep' = NoteFailure("acquire")
    /\ pc' = "idle"
    /\ lastResult' = "crashed"
    /\ UNCHANGED <<ctorVars, configVars>>
    /\ UNCHANGED semVars
    /\ UNCHANGED <<calls, imageIndex, fence, exec, sigpend, image>>

\* Line 342: presentFences[imageIndex] with an index outside the vector.
WaitOutOfRange ==
    /\ pc = "wait"
    /\ imageIndex \notin FenceIndices
    /\ pc' = "idle"
    /\ lastResult' = "crashed"
    /\ UNCHANGED <<ctorVars, configVars>>
    /\ UNCHANGED semVars
    /\ UNCHANGED <<calls, imageIndex, fence, exec, sigpend, image, steps,
                   failedStep>>

\* Line 342: waitForFences returns once the fence is signaled.
WaitOk ==
    /\ pc = "wait"
    /\ imageIndex \in FenceIndices
    /\ fence[imageIndex]
    /\ steps' = Log("wait", imageIndex)
    /\ pc' = StepAfter("wait")
    /\ UNCHANGED <<ctorVars, configVars>>
    /\ UNCHANGED semVars
    /\ UNCHANGED <<calls, imageIndex, fence, exec, sigpend, image, failedStep,
                   lastResult>>

\* Line 342: waitForFences returns an error; the result is discarded.
WaitFail ==
    /\ pc = "wait"
    /\ imageIndex \in FenceIndices
    /\ steps' = Log("wait", imageIndex)
    /\ failedStep' = NoteFailure("wait")
    /\ pc' = StepAfter("wait")
    /\ UNCHANGED <<ctorVars, configVars>>
    /\ UNCHANGED semVars
    /\ UNCHANGED <<calls, imageIndex, fence, exec, sigpend, image, lastResult>>

\* Lines 350-357: begin, beginRenderPass, endRenderPass, end.
RecordOk ==
    /\ pc = "record"
    /\ steps' = Log("record", imageIndex)
    /\ pc' = StepAfter("record")
    /\ UNCHANGED <<ctorVars, configVars>>
    /\ UNCHANGED semVars
    /\ UNCHANGED <<calls, imageIndex, fence, exec, sigpend, image, failedStep,
                   lastResult>>

\* Lines 351, 357: begin or end (enhanced mode) throws.
RecordThrow ==
    /\ pc = "record"
    /\ steps' = Log("record", imageIndex)
    /\ failedStep' = NoteFailure("record")
    /\ pc' = "idle"
    /\ lastResult' = "error"
    /\ imageIndex' = OutOfRange
    /\ UNCHANGED <<ctorVars, configVars>>
    /\ UNCHANGED semVars
    /\ UNCHANGED <<calls, fence, exec, sigpend, image>>

\* Line 367: resetFences.
ResetOk ==
    /\ pc = "reset"
    /\ fence' = [fence EXCEPT ![imageIndex] = FALSE]
    /\ steps' = Log("reset", imageIndex)
    /\ pc' = StepAfter("reset")
    /\ UNCHANGED <<ctorVars, configVars>>
    /\ UNCHANGED semVars
    /\ UNCHANGED <<calls, imageIndex, exec, sigpend, image, failedStep,
                   lastResult>>

\* Line 367: resetFences returns an error; the result is discarded.
ResetFail ==
    /\ pc = "reset"
    /\ steps' = Log("reset", imageIndex)
    /\ failedStep' = NoteFailure("reset")
    /\ pc' = StepAfter("reset")
    /\ UNCHANGED <<ctorVars, configVars>>
    /\ UNCHANGED semVars
    /\ UNCHANGED <<calls, imageIndex, fence, exec, sigpend, image, lastResult>>

\* Line 368: queueGraphics.submit with presentFences[imageIndex].
SubmitOk ==
    /\ pc = "submit"
    /\ exec' = [exec EXCEPT ![imageIndex] = @ + 1]
    /\ steps' = Log("submit", imageIndex)
    /\ pc' = StepAfter("submit")
    /\ UNCHANGED <<ctorVars, configVars>>
    /\ sub' = [sub EXCEPT ![calls] = "waiting"]
    /\ cimg' = [cimg EXCEPT ![calls] = imageIndex]
    /\ UNCHANGED <<semPC, semRC, acq, prs, crossCycle>>
    /\ UNCHANGED <<calls, imageIndex, fence, sigpend, image, failedStep,
                   lastResult>>

\* Line 368: submit (enhanced mode) throws; nothing is submitted.
SubmitThrow ==
    /\ pc = "submit"
    /\ steps' = Log("submit", imageIndex)
    /\ failedStep' = NoteFailure("submit")
    /\ pc' = "idle"
    /\ lastResult' = "error"
    /\ imageIndex' = OutOfRange
    /\ UNCHANGED <<ctorVars, configVars>>
    /\ UNCHANGED semVars
    /\ UNCHANGED <<calls, fence, exec, sigpend, image>>

\* Line 375: presentKHR queues the image for presentation; Clear returns.
PresentOk ==
    /\ pc = "present"
    /\ image' = IF image[imageIndex] = "acquired"
                THEN [image EXCEPT ![imageIndex] = "presented"]
                ELSE image
    /\ steps' = Log("present", imageIndex)
    /\ pc' = "idle"
    /\ lastResult' = IF lastResult = "running" THEN "ok" ELSE lastResult
    /\ imageIndex' = OutOfRange
    /\ UNCHANGED <<ctorVars, configVars>>
    /\ prs' = [prs EXCEPT ![calls] = "waiting"]
    /\ UNCHANGED <<semPC, semRC, acq, sub, cimg, crossCycle>>
    /\ UNCHANGED <<calls, fence, exec, sigpend, failedStep>>

\* Line 375: presentKHR (enhanced mode) throws; the image stays acquired.
PresentThrow ==
    /\ pc = "present"
    /\ steps' = Log("present", imageIndex)
    /\ failedStep' = NoteFailure("present")
    /\ pc' = "idle"
    /\ lastResult' = "error"
    /\ imageIndex' = OutOfRange
    /\ UNCHANGED <<ctorVars, configVars>>
    /\ UNCHANGED semVars
    /\ UNCHANGED <<calls, fence, exec, sigpend, image>>

(***************************************************************************)
(* The device and the presentation engine, at work while the Device lives. *)
(***************************************************************************)
\* Both the submission and the present of call c are over: nothing of the
\* call is left on the device but a signal of its acquire still to come.
Forget(c) ==
    /\ acq' = [acq EXCEPT ![c] = IF @ = "pending" THEN @ ELSE "none"]
    /\ sub' = [sub EXCEPT ![c] = "none"]
    /\ prs' = [prs EXCEPT ![c] = "none"]
    /\ cimg' = [cimg EXCEPT ![c] = OutOfRange]

\* Line 341: the presentation engine signals presentCompletedSemaphore
\* for the acquire of call c.
AcquireSignal(c) ==
    /\ cpc = "ready"
    /\ acq[c] = "pending"
    /\ acq' = [acq EXCEPT ![c] = "done"]
    /\ semPC' = c
    /\ UNCHANGED <<ctorVars, configVars>>
    /\ UNCHANGED <<pc, calls, imageIndex, fence, exec, sigpend, image, steps,
                   failedStep, lastResult>>
    /\ UNCHANGED <<semRC, sub, prs, cimg, crossCycle>>

\* Lines 359-364: the submission of call c reaches its color-attachment
\* output once its wait for presentCompletedSemaphore finds a signal, which
\* the wait consumes.
GPUStart(c) ==
    /\ cpc = "ready"
    /\ sub[c] = "waiting"
    /\ semPC # 0
    /\ sub' = [sub EXCEPT ![c] = "running"]
    /\ semPC' = 0
    /\ crossCycle' = (crossCycle \/ semPC # c)
    /\ UNCHANGED <<ctorVars, configVars>>
    /\ UNCHANGED <<pc, calls, imageIndex, fence, exec, sigpend, image, steps,
                   failedStep, lastResult>>
    /\ UNCHANGED <<semRC, acq, prs, cimg>>

\* The commands of a submission of index i complete: its semaphore signal
\* (lines 365-366, renderCompletedSemaphore).
GPUFinish(i) ==
    /\ cpc = "ready"
    /\ exec[i] > 0
    /\ \E c \in Cycles :
          /\ cimg[c] = i
          /\ sub[c] = "running"
          /\ semRC' = c
          /\ IF prs[c] = "done"
             THEN Forget(c)
             ELSE /\ sub' = [sub EXCEPT ![c] = "done"]
                  /\ UNCHANGED <<acq, prs, cimg>>
    /\ exec' = [exec EXCEPT ![i] = @ - 1]
    /\ sigpend' = [sigpend EXCEPT ![i] = @ + 1]
    /\ UNCHANGED <<semPC, crossCycle>>
    /\ UNCHANGED <<ctorVars, configVars>>
    /\ UNCHANGED <<pc, calls, imageIndex, fence, image, steps, failedStep,
                   lastResult>>

\* The fence signal of a finished submission, after its semaphore signal.
FenceSignal(i) ==
    /\ cpc = "ready"
    /\ sigpend[i] > 0
    /\ sigpend' = [sigpend EXCEPT ![i] = @ - 1]
    /\ fence' = [fence EXCEPT ![i] = TRUE]
    /\ UNCHANGED <<ctorVars, configVars>>
    /\ UNCHANGED semVars
    /\ UNCHANGED <<pc, calls, imageIndex, exec, image, steps, failedStep,
                   lastResult>>

\* Lines 370-375: the present of call c is executed once its wait for
\* renderCompletedSemaphore finds a signal, which the wait consumes.
PresentExec(c) ==
    /\ cpc = "ready"
    /\ prs[c] = "waiting"
    /\ semRC # 0
    /\ IF sub[c] = "done"
       THEN Forget(c)
       ELSE /\ prs' = [prs EXCEPT ![c] = "done"]
            /\ UNCHANGED <<acq, sub, cimg>>
    /\ semRC' = 0
    /\ crossCycle' = (crossCycle \/ semRC # c)
    /\ UNCHANGED <<ctorVars, configVars>>
    /\ UNCHANGED <<pc, calls, imageIndex, fence, exec, sigpend, image, steps,
                   failedStep, lastResult>>
    /\ UNCHANGED semPC

\* The presentation engine hands a presented image back once the present
\* that queued it has been executed.
Release(i) ==
    /\ cpc = "ready"
    /\ image[i] = "presented"
    /\ \A c \in Cycles : cimg[c] = i => prs[c] # "waiting"
    /\ image' = [image EXCEPT ![i] = "free"]
    /\ UNCHANGED semVars
    /\ UNCHANGED <<ctorVars, configVars>>
    /\ UNCHANGED <<pc, calls, imageIndex, fence, exec, sigpend, steps,
                   failedStep, lastResult>>

(***************************************************************************)
(* What the host reports.  A device is its type, its memory heaps and its  *)
(* queue families; a family is its flags, its queueCount and whether GLFW  *)
(* reports presentation support for it.                                    *)
(***************************************************************************)
GCT == {"G", "C", "T"}

Family(fl, cnt, pr) == [queueFlags |-> fl, queueCount |-> cnt, present |-> pr]

Heap(local, sz) == [deviceLocal |-> local, size |-> sz]

PhysDevice(t, hp, fams) == [deviceType |-> t, heaps |-> hp, families |-> fams]

SeqsUpTo(S, n) == UNION {[1 .. k -> S] : k \in 0 .. n}

\* The accelerators of the hosts the construction is run on.
CtorDevices ==
    { PhysDevice("discrete", <<Heap(TRUE, 2)>>, <<Family(GCT, 3, TRUE)>>),
      PhysDevice("integrated", <<Heap(TRUE, 1), Heap(FALSE, 2)>>,
                 <<Family(GCT, 1, TRUE)>>),
      PhysDevice("integrated", <<Heap(TRUE, 1)>>,
                 <<Family({"G"}, 1, TRUE), Family({"C", "T"}, 2, FALSE)>>),
      PhysDevice("discrete", <<Heap(TRUE, 2), Heap(TRUE, 1)>>,
                 <<Family({"C", "T"}, 3, FALSE)>>),
      PhysDevice("other", <<>>, <<Family({}, 1, FALSE)>>) }

CtorHosts == SeqsUpTo(CtorDevices, MaxDevices)

\* Every list of queue families within the bounds.
FamilyLists ==
    { f \in SeqsUpTo([queueFlags : SUBSET GCT, queueCount : 1 .. MaxQueueCount,
                      present : {FALSE}], MaxFamilies) : Len(f) >= 1 }

\* Every list of queue families within the bounds, with and without
\* presentation support.
PresentFamilyLists ==
    { f \in SeqsUpTo([queueFlags : SUBSET GCT, queueCount : {1},
                      present : BOOLEAN], MaxFamilies) : Len(f) >= 1 }

\* A discrete accelerator with graphics, compute, transfer and presentation.
ReferenceDevice ==
    PhysDevice("discrete", <<Heap(TRUE, 2)>>, <<Family(GCT, 3, TRUE)>>)

\* The hosts ChoosePhysicalDevice is run on for an accelerator d: d alone,
\* before and after the reference accelerator.
ChooseHosts(d) == {<<d>>, <<d, ReferenceDevice>>, <<ReferenceDevice, d>>}

(***************************************************************************)
(* ChoosePhysicalDevice, lines 119-159.                                    *)
(***************************************************************************)
RECURSIVE QueueFlagsUnion(_, _)
\* Lines 123-126: queueFlags |= queueFamilyProperty.queueFlags.
QueueFlagsUnion(fams, k) ==
    IF k = 0 THEN {} ELSE QueueFlagsUnion(fams, k - 1) \cup fams[k].queueFlags

PassesFilter_AnyPresent(dev, windowed) ==
    /\ QueueFlagsUnion(dev.families, Len(dev.families)) \cap GCT # {}
    /\ \/ ~windowed
       \/ \E i \in 1 .. Len(dev.families) : dev.families[i].present

\* Lines 121-136: the filter; a vk::Flags value is true when any bit is set.
PassesFilter(dev, windowed) ==
    /\ QueueFlagsUnion(dev.families, Len(dev.families)) \cap GCT # {}
    /\ \/ ~windowed
       \/ \E i \in 1 .. Len(dev.families) :
             /\ "G" \in dev.families[i].queueFlags
             /\ dev.families[i].present

\* Lines 142-151.
DeviceTypeRank(t) ==
    CASE t = "discrete"   -> 2
      [] t = "integrated" -> 1
      [] OTHER            -> 0

RECURSIVE MemorySize(_, _)
\* Lines 152-154: the sizes of the device-local heaps, added up.
MemorySize(heaps, k) ==
    IF k = 0 THEN 0
    ELSE MemorySize(heaps, k - 1)
            + (IF heaps[k].deviceLocal THEN heaps[k].size ELSE 0)

\* Line 155: std::make_tuple(deviceType, memorySize).
DeviceKey(dev) ==
    <<DeviceTypeRank(dev.deviceType), MemorySize(dev.heaps, Len(dev.heaps))>>

\* std::less on the tuples: lexicographic.
KeyLess(a, b) == a[1] < b[1] \/ (a[1] = b[1] /\ a[2] < b[2])

RECURSIVE MaxElement(_, _, _, _)
\* std::ranges::max_element over the filtered view: the first of the
\* greatest; 0 stands for devices.end().
MaxElement(devs, windowed, k, best) ==
    IF k > Len(devs) THEN best
    ELSE IF ~PassesFilter(devs[k], windowed)
         THEN MaxElement(devs, windowed, k + 1, best)
    ELSE IF best = 0 \/ KeyLess(DeviceKey(devs[best]), DeviceKey(devs[k]))
         THEN MaxElement(devs, windowed, k + 1, k)
    ELSE MaxElement(devs, windowed, k + 1, best)

\* The index of the device ChoosePhysicalDevice returns, 0 when it throws.
ChoosePhysicalDevice(devs, windowed) == MaxElement(devs, windowed, 1, 0)

(***************************************************************************)
(* CreateLogicalDevice, lines 160-204.  Family indices count from 0.       *)
(***************************************************************************)
\* The scan as it would be if it stopped at the first family with the flag.
ScanFamily_FirstMatch(fams, flag, i, cur) ==
    LET later == {j \in i .. (Len(fams) - 1) : flag \in fams[j + 1].queueFlags}
    IN  IF later = {} THEN cur
        ELSE CHOOSE j \in later : \A k \in later : j <= k

RECURSIVE ScanFamily(_, _, _, _)
\* Lines 166-170: the last family that has the flag, 0 when none has it.
ScanFamily(fams, flag, i, cur) ==
    IF i = Len(fams) THEN cur
    ELSE ScanFamily(fams, flag, i + 1,
                    IF flag \in fams[i + 1].queueFlags THEN i ELSE cur)

QueueFamily(fams, flag) == ScanFamily(fams, flag, 0, 0)

\* Lines 171-174: queueCountList after the post-increments of the roles
\* listed in rs, in that order.
RECURSIVE QueueCountAfter(_, _)
QueueCountAfter(fams, rs) ==
    IF rs = <<>> THEN [f \in 0 .. (Len(fams) - 1) |-> 0]
    ELSE LET before == QueueCountAfter(fams, SubSeq(rs, 1, Len(rs) - 1))
             f == QueueFamily(fams, rs[Len(rs)])
         IN  [before EXCEPT ![f] = @ + 1]

QueueCountList(fams) == QueueCountAfter(fams, <<"G", "C", "T">>)

\* Line 181: the priority 1.0f of every queue.
QueuePriority == 1

\* The value of queueCountList[family]++ for each role.
QueueIndexGraphics(fams) ==
    QueueCountAfter(fams, <<>>)[QueueFamily(fams, "G")]
QueueIndexCompute_Zero(fams) == 0

QueueIndexCompute(fams) ==
    QueueCountAfter(fams, <<"G">>)[QueueFamily(fams, "C")]
QueueIndexTransfer(fams) ==
    QueueCountAfter(fams, <<"G", "C">>)[QueueFamily(fams, "T")]

Oversubscribed_OffByOne(fams) ==
    \E f \in 0 .. (Len(fams) - 1) :
        /\ QueueCountList(fams)[f] # 0
        /\ QueueCountList(fams)[f] > fams[f + 1].queueCount + 1

\* Lines 177-180: the check that throws.
Oversubscribed(fams) ==
    \E f \in 0 .. (Len(fams) - 1) :
        /\ QueueCountList(fams)[f] # 0
        /\ QueueCountList(fams)[f] > fams[f + 1].queueCount

RECURSIVE QueueInfosFrom(_, _)
\* Lines 175-183: one entry per family with a non-zero count, in index order.
QueueInfosFrom(fams, n) ==
    IF n = 0 THEN <<>>
    ELSE LET rest == QueueInfosFrom(fams, n - 1)
             c == QueueCountList(fams)[n - 1]
         IN  IF c # 0
             THEN Append(rest, [family |-> n - 1, count |-> c,
                                priorities |-> [j \in 1 .. c |-> QueuePriority]])
             ELSE rest

(***************************************************************************)
(* CreateSwapchain, line 221: std::clamp(2u, minImageCount, maxImageCount).*)
(* With hi < lo the call has undefined behaviour: the library returns      *)
(* min(max(v, lo), hi) (libstdc++) or lo or hi by comparison order         *)
(* (libc++), or its precondition assertion aborts.                         *)
(***************************************************************************)
Min(a, b) == IF a < b THEN a ELSE b
Max(a, b) == IF a < b THEN b ELSE a

ClampOutcomes(v, lo, hi) ==
    IF lo <= hi
    THEN {Min(Max(v, lo), hi)}
    ELSE {Min(Max(v, lo), hi), IF v < lo THEN lo ELSE IF hi < v THEN hi ELSE v}

\* The image counts a swapchain asked for n images may be created with.
SwapchainImageCounts(n, lo, hi) ==
    {a \in Max(n, lo) .. (Max(n, lo) + 1) : hi = 0 \/ a <= hi}

(***************************************************************************)
(* The owning members of Impl in declaration order, lines 63-86.  Members  *)
(* are destroyed in the reverse order, by ~Impl and when Impl::Impl throws.*)
(***************************************************************************)
Members ==
    << "instance", "lgcDevice", "commandPoolGraphics", "commandPoolCompute",
       "commandPoolTransfer", "surface", "swapchain", "depthStencil",
       "depthStencilMemory", "colorImageViews", "depthImageView",
       "renderPass", "framebuffers", "commandBuffersGraphics",
       "commandBuffersCompute", "commandBuffersTransfer",
       "presentCompletedSemaphore", "renderCompletedSemaphore",
       "presentFences" >>

MemberSet == {Members[k] : k \in DOMAIN Members}

NoHandles == [m \in MemberSet |-> 0]

NoQueues == [graphics |-> <<>>, compute |-> <<>>, transfer |-> <<>>]

NoCaps == [minImageCount |-> 0, maxImageCount |-> 0]

RECURSIVE DestroyEvents(_, _)
\* The destructors of the first k members, last declared first; a member
\* that holds no handle destroys nothing.
DestroyEvents(h, k) ==
    IF k = 0 THEN <<>>
    ELSE (IF h[Members[k]] > 0 THEN <<<<"destroy", Members[k]>>>> ELSE <<>>)
            \o DestroyEvents(h, k - 1)

Reverse(s) == [k \in 1 .. Len(s) |-> s[Len(s) + 1 - k]]

DestroyMembers_DeclarationOrder(h) == Reverse(DestroyEvents(h, Len(Members)))

DestroyMembers(h) == DestroyEvents(h, Len(Members))

\* ~Impl, and the unwinding of Impl::Impl: the members declared at lines
\* 64-86, then the window reference of line 63, which is declared first.
DestroyImpl(h) ==
    DestroyMembers(h) \o (IF window THEN <<<<"destroy", "window">>>> ELSE <<>>)

Create(log, m) == Append(log, <<"create", m>>)

\* An exception leaves Impl::Impl: the members are destroyed and the
\* exception reaches the caller of the constructor.
Throw(h, log, err) ==
    /\ cpc' = "failed"
    /\ ctorError' = err
    /\ ctorOutcome' = "threw"
    /\ handles' = NoHandles
    /\ evlog' = log \o DestroyImpl(h)

CtorInit ==
    /\ cpc = "instance"
    /\ phyDevice = 0
    /\ handles = NoHandles
    /\ queues = NoQueues
    /\ queueInfos = <<>>
    /\ surfaceCaps = NoCaps
    /\ requestedImages = 0
    /\ numImages = 0
    /\ evlog = <<>>
    /\ ctorOutcome = "running"
    /\ ctorError = "none"
    /\ extNames = <<>>
    /\ extQueries = 0
    /\ memoryTypeIndex = 0
    /\ ipc = "exts"
    /\ snap = NoSnap
    /\ appInfo = <<>>

(***************************************************************************)
(* Impl::Impl, lines 87-103: one action per construction step and outcome. *)
(***************************************************************************)
GetRequiredInstanceExts_IgnoreHeadless(headless) ==
    [names |-> platformExts, queries |-> 1, failed |-> platformExts = <<>>]

\* Lines 50-60: the names and the number of calls made to the windowing
\* library; failed when the library returned NULL (lines 54-56 throw).
GetRequiredInstanceExts(headless) ==
    IF ~headless
    THEN [names |-> platformExts, queries |-> 1,
          failed |-> platformExts = <<>>]
    ELSE [names |-> <<>>, queries |-> 0, failed |-> FALSE]

\* The thread that runs the constructor.
CtorThread == 1

RECURSIVE BitOr(_, _)
\* a | b.
BitOr(a, b) ==
    IF a = 0 THEN b
    ELSE IF b = 0 THEN a
    ELSE (IF a % 2 = 1 \/ b % 2 = 1 THEN 1 ELSE 0)
            + 2 * BitOr(a \div 2, b \div 2)

\* Line 113: VK_MAKE_VERSION(major, minor, patch), which is
\* ((uint32_t)major << 22) | ((uint32_t)minor << 12) | (uint32_t)patch,
\* as the high and the low 16 bits of the 32-bit value.
MakeVersion(major, minor, patch) ==
    <<BitOr((major * 2 ^ 6) % 2 ^ UInt16Bits, minor \div 2 ^ 4),
      BitOr((minor % 2 ^ 4) * 2 ^ 12, patch)>>

\* Line 116: the vk::ApplicationInfo built from what the getters returned.
ApplicationInfo(name, major, minor, patch) ==
    [applicationName |-> name,
     applicationVersion |-> MakeVersion(major, minor, patch)]

\* The getters CreateInstance may call next: GetAppName at line 111, then
\* the three operands of VK_MAKE_VERSION at line 113, which the compiler
\* may evaluate in any order.
NextFields ==
    IF ipc = "name" THEN {"name"}
    ELSE IF ipc = "version"
         THEN {f \in {"major", "minor", "patch"} : snap[f] = NoRet}
         ELSE {}

\* Lines 105-110: the layer and extension names.
CreateInstanceExts ==
    /\ cpc = "instance"
    /\ ipc = "exts"
    /\ LET ext == GetRequiredInstanceExts(~window) IN
          /\ ~ext.failed
          /\ extQueries' = extQueries + ext.queries
          /\ extNames' = ext.names
    /\ ipc' = "name"
    /\ UNCHANGED <<window, host, cpc, phyDevice, handles, queues, queueInfos,
                   surfaceCaps, requestedImages, numImages, evlog,
                   ctorOutcome, ctorError>>
    /\ UNCHANGED <<platformExts, memoryTypes, memoryTypeBits, memoryTypeIndex>>
    /\ UNCHANGED <<snap, appInfo>>
    /\ UNCHANGED <<frameVars, configVars>>

\* Lines 111, 113: CreateInstance calls a getter, which takes the shared
\* lock.
CreateInstanceGet(f) ==
    /\ cpc = "instance"
    /\ f \in NextFields
    /\ GetLock(CtorThread, f)

\* The getter CreateInstance called copies the variable and releases the
\* lock.
CreateInstanceGetReturn ==
    /\ cpc = "instance"
    /\ ipc \in {"name", "version"}
    /\ GetReturn(CtorThread)

\* Lines 111, 113: CreateInstance keeps what the getter returned.
CreateInstanceTake ==
    /\ cpc = "instance"
    /\ ipc \in {"name", "version"}
    /\ tpc[CtorThread] = "got"
    /\ snap' = [snap EXCEPT ![tfield[CtorThread]] = tret[CtorThread]]
    /\ ipc' = IF ipc = "name" THEN "version"
              ELSE IF NextFields \subseteq {tfield[CtorThread]} THEN "create"
              ELSE "version"
    /\ tret' = [tret EXCEPT ![CtorThread] = NoRet]
    /\ tfield' = [tfield EXCEPT ![CtorThread] = "none"]
    /\ tpc' = [tpc EXCEPT ![CtorThread] = "idle"]
    /\ UNCHANGED <<appName, appMajor, appMinor, appPatch, writer, readers,
                   targ, setLog>>
    /\ UNCHANGED <<window, host, cpc, phyDevice, handles, queues, queueInfos,
                   surfaceCaps, requestedImages, numImages, evlog,
                   ctorOutcome, ctorError, platformVars, appInfo>>
    /\ UNCHANGED frameVars

\* Lines 114-117 and 88: the instance is created.
CreateInstance ==
    /\ cpc = "instance"
    /\ ipc = "create"
    /\ appInfo' = <<ApplicationInfo(snap["name"].value, snap["major"].value,
                                    snap["minor"].value, snap["patch"].value)>>
    /\ handles' = [handles EXCEPT !["instance"] = 1]
    /\ evlog' = Create(evlog, "instance")
    /\ cpc' = "choose"
    /\ ipc' = "done"
    /\ UNCHANGED <<window, host, phyDevice, queues, queueInfos, surfaceCaps,
                   requestedImages, numImages, ctorOutcome, ctorError>>
    /\ UNCHANGED <<platformVars, snap>>
    /\ UNCHANGED <<frameVars, configVars>>

\* Line 56: GetRequiredInstanceExts throws the description of the error
\* the windowing library reports; line 117: createInstanceUnique throws.
CreateInstanceThrow ==
    /\ cpc = "instance"
    /\ \/ /\ ipc = "exts"
          /\ LET ext == GetRequiredInstanceExts(~window) IN
                /\ ext.failed
                /\ extQueries' = extQueries + ext.queries
          /\ Throw(handles, evlog, "platform")
          /\ UNCHANGED appInfo
       \/ /\ ipc = "create"
          /\ appInfo' = <<ApplicationInfo(snap["name"].value,
                                          snap["major"].value,
                                          snap["minor"].value,
                                          snap["patch"].value)>>
          /\ Throw(handles, evlog, "api")
          /\ UNCHANGED extQueries
    /\ ipc' = "done"
    /\ UNCHANGED <<window, host, phyDevice, queues, queueInfos, surfaceCaps,
                   requestedImages, numImages>>
    /\ UNCHANGED <<platformExts, extNames, memoryTypes, memoryTypeBits,
                   memoryTypeIndex, snap>>
    /\ UNCHANGED <<frameVars, configVars>>

\* Line 89: ChoosePhysicalDevice returns a device.
ChooseDevice ==
    /\ cpc = "choose"
    /\ ChoosePhysicalDevice(host, window) # 0
    /\ phyDevice' = ChoosePhysicalDevice(host, window)
    /\ cpc' = "logical"
    /\ UNCHANGED <<window, host, handles, queues, queueInfos, surfaceCaps,
                   requestedImages, numImages, evlog, ctorOutcome, ctorError>>
    /\ UNCHANGED <<frameVars, configVars, platformVars, instanceVars>>

\* Line 158: no device is left after the filter.
ChooseDeviceNone ==
    /\ cpc = "choose"
    /\ ChoosePhysicalDevice(host, window) = 0
    /\ Throw(handles, evlog, "NoSuitableDevice")
    /\ UNCHANGED <<window, host, phyDevice, queues, queueInfos, surfaceCaps,
                   requestedImages, numImages>>
    /\ UNCHANGED <<frameVars, configVars, platformVars, instanceVars>>

\* Line 120: enumeratePhysicalDevices throws.
ChooseDeviceThrow ==
    /\ cpc = "choose"
    /\ Throw(handles, evlog, "api")
    /\ UNCHANGED <<window, host, phyDevice, queues, queueInfos, surfaceCaps,
                   requestedImages, numImages>>
    /\ UNCHANGED <<frameVars, configVars, platformVars, instanceVars>>

\* Line 179: the queue counts exceed a family's queueCount.
LogicalDeviceOversubscribed ==
    /\ cpc = "logical"
    /\ Oversubscribed(host[phyDevice].families)
    /\ Throw(handles, evlog, "Oversubscribed")
    /\ UNCHANGED <<window, host, phyDevice, queues, queueInfos, surfaceCaps,
                   requestedImages, numImages>>
    /\ UNCHANGED <<frameVars, configVars, platformVars, instanceVars>>

\* Line 189: createDeviceUnique throws.
LogicalDeviceThrow ==
    /\ cpc = "logical"
    /\ ~Oversubscribed(host[phyDevice].families)
    /\ queueInfos' = QueueInfosFrom(host[phyDevice].families,
                                     Len(host[phyDevice].families))
    /\ Throw(handles, evlog, "api")
    /\ UNCHANGED <<window, host, phyDevice, queues, surfaceCaps,
                   requestedImages, numImages>>
    /\ UNCHANGED <<frameVars, configVars, platformVars, instanceVars>>

\* Lines 194-198: createCommandPoolUnique throws after k pools were stored
\* in their members.  The unwinding destroys the local UniqueDevice first
\* and the members afterwards: a pool already stored is destroyed through the
\* handle of a device that no longer exists, which is undefined behaviour;
\* the process goes on, or it crashes.
CommandPoolThrow ==
    /\ cpc = "logical"
    /\ ~Oversubscribed(host[phyDevice].families)
    /\ queueInfos' = QueueInfosFrom(host[phyDevice].families,
                                     Len(host[phyDevice].families))
    /\ \E k \in 0 .. 2 :
          LET pools == SubSeq(Members, 3, 2 + k)
              h == [m \in MemberSet |->
                      IF \E j \in 1 .. k : pools[j] = m THEN 1 ELSE handles[m]]
              made == [j \in 1 .. (k + 1) |->
                         <<"create", IF j = 1 THEN "lgcDevice" ELSE pools[j - 1]>>]
          IN  /\ cpc' = "failed"
              /\ ctorError' = "api"
              /\ handles' = NoHandles
              /\ evlog' = evlog \o made \o <<<<"destroy", "lgcDevice">>>>
                             \o DestroyImpl(h)
              /\ \E o \in (IF k = 0 THEN {"threw"} ELSE {"threw", "crashed"}) :
                    ctorOutcome' = o
    /\ UNCHANGED <<window, host, phyDevice, queues, surfaceCaps,
                   requestedImages, numImages>>
    /\ UNCHANGED <<frameVars, configVars, platformVars, instanceVars>>

\* Lines 160-204 and 90: the device, the three pools and the three queues.
LogicalDeviceOk ==
    /\ cpc = "logical"
    /\ LET fams == host[phyDevice].families IN
          /\ ~Oversubscribed(fams)
          /\ queueInfos' = QueueInfosFrom(fams, Len(fams))
          /\ queues' =
                [graphics |-> <<QueueFamily(fams, "G"), QueueIndexGraphics(fams)>>,
                 compute  |-> <<QueueFamily(fams, "C"), QueueIndexCompute(fams)>>,
                 transfer |-> <<QueueFamily(fams, "T"), QueueIndexTransfer(fams)>>]
    /\ handles' = [handles EXCEPT !["lgcDevice"] = 1,
                                  !["commandPoolGraphics"] = 1,
                                  !["commandPoolCompute"] = 1,
                                  !["commandPoolTransfer"] = 1]
    /\ evlog' = evlog \o [j \in 1 .. 4 |-> <<"create", Members[j + 1]>>]
    /\ cpc' = IF window THEN "surface" ELSE "ready"
    /\ ctorOutcome' = IF window THEN ctorOutcome ELSE "ok"
    /\ UNCHANGED <<window, host, phyDevice, surfaceCaps, requestedImages,
                   numImages, ctorError>>
    /\ UNCHANGED <<frameVars, configVars, platformVars, instanceVars>>

\* Line 92: CreateSurface.
CreateSurface ==
    /\ cpc = "surface"
    /\ handles' = [handles EXCEPT !["surface"] = 1]
    /\ evlog' = Create(evlog, "surface")
    /\ cpc' = "swapchain"
    /\ UNCHANGED <<window, host, phyDevice, queues, queueInfos, surfaceCaps,
                   requestedImages, numImages, ctorOutcome, ctorError>>
    /\ UNCHANGED <<frameVars, configVars, platformVars, instanceVars>>

\* Line 211: glfwCreateWindowSurface fails.
CreateSurfaceThrow ==
    /\ cpc = "surface"
    /\ Throw(handles, evlog, "platform")
    /\ UNCHANGED <<window, host, phyDevice, queues, queueInfos, surfaceCaps,
                   requestedImages, numImages>>
    /\ UNCHANGED <<frameVars, configVars, platformVars, instanceVars>>

\* The capabilities a surface can report: minImageCount is at least 1, and
\* maxImageCount is 0 (no limit) or at least minImageCount.
SurfaceCapabilities ==
    {c \in [minImageCount : 1 .. MaxMinImageCount,
            maxImageCount : 0 .. MaxMaxImageCount] :
        c.maxImageCount = 0 \/ c.maxImageCount >= c.minImageCount}

\* Lines 215-230 and 93: CreateSwapchain.
CreateSwapchain ==
    /\ cpc = "swapchain"
    /\ \E cap \in SurfaceCapabilities :
          /\ surfaceCaps' = cap
          /\ \E n \in ClampOutcomes(2, cap.minImageCount, cap.maxImageCount) :
                /\ requestedImages' = n
                /\ \E a \in SwapchainImageCounts(n, cap.minImageCount,
                                                 cap.maxImageCount) :
                      numImages' = a
    /\ handles' = [handles EXCEPT !["swapchain"] = 1]
    /\ evlog' = Create(evlog, "swapchain")
    /\ cpc' = "depth"
    /\ UNCHANGED <<window, host, phyDevice, queues, queueInfos, ctorOutcome,
                   ctorError>>
    /\ UNCHANGED <<frameVars, configVars, platformVars, instanceVars>>

\* Line 221: the precondition assertion of std::clamp aborts the process.
CreateSwapchainClampAbort ==
    /\ cpc = "swapchain"
    /\ \E cap \in SurfaceCapabilities :
          /\ cap.maxImageCount < cap.minImageCount
          /\ surfaceCaps' = cap
    /\ cpc' = "failed"
    /\ ctorOutcome' = "crashed"
    /\ UNCHANGED <<window, host, phyDevice, handles, queues, queueInfos,
                   requestedImages, numImages, evlog, ctorError>>
    /\ UNCHANGED <<frameVars, configVars, platformVars, instanceVars>>

\* Lines 217, 218, 229: a surface query or createSwapchainKHRUnique throws.
CreateSwapchainThrow ==
    /\ cpc = "swapchain"
    /\ Throw(handles, evlog, "api")
    /\ UNCHANGED <<window, host, phyDevice, queues, queueInfos, surfaceCaps,
                   requestedImages, numImages>>
    /\ UNCHANGED <<frameVars, configVars, platformVars, instanceVars>>

\* h with member m holding n handles, and the log with its creation.
Held(h, m, n) == [h EXCEPT ![m] = n]

Logged(log, m, n) == IF n > 0 THEN Create(log, m) ELSE log

RECURSIVE ScanMemoryTypes(_, _, _)
\* Lines 246-255 from iteration i on, bits being memoryTypeBits shifted
\* right i times; 0 is the initial value of line 245.
ScanMemoryTypes(bits, types, i) ==
    IF i >= Len(types) THEN 0
    ELSE IF bits % 2 = 1 /\ types[i + 1] THEN i
    ELSE ScanMemoryTypes(bits \div 2, types, i + 1)

\* Lines 245-255: the index given to vk::MemoryAllocateInfo at line 256.
MemoryTypeIndex(bits, types) == ScanMemoryTypes(bits, types, 0)

\* Lines 231-259 and 94: the depth/stencil image and its memory.
CreateDepthStencil ==
    /\ cpc = "depth"
    /\ memoryTypeIndex' = MemoryTypeIndex(memoryTypeBits, memoryTypes)
    /\ handles' = [handles EXCEPT !["depthStencil"] = 1,
                                  !["depthStencilMemory"] = 1]
    /\ evlog' = Create(Create(evlog, "depthStencil"), "depthStencilMemory")
    /\ cpc' = "views"
    /\ UNCHANGED <<window, host, phyDevice, queues, queueInfos, surfaceCaps,
                   requestedImages, numImages, ctorOutcome, ctorError>>
    /\ UNCHANGED <<platformExts, extNames, extQueries, memoryTypes,
                   memoryTypeBits, instanceVars>>
    /\ UNCHANGED <<frameVars, configVars>>

\* Lines 234, 242: nothing created; 257: the image created; 258: both.
CreateDepthStencilThrow ==
    /\ cpc = "depth"
    /\ \E k \in 0 .. 2 :
          Throw(Held(Held(handles, "depthStencil", IF k >= 1 THEN 1 ELSE 0),
                     "depthStencilMemory", IF k >= 2 THEN 1 ELSE 0),
                Logged(Logged(evlog, "depthStencil", IF k >= 1 THEN 1 ELSE 0),
                       "depthStencilMemory", IF k >= 2 THEN 1 ELSE 0),
                "api")
    /\ UNCHANGED <<window, host, phyDevice, queues, queueInfos, surfaceCaps,
                   requestedImages, numImages>>
    /\ UNCHANGED <<frameVars, configVars, platformVars, instanceVars>>

\* Lines 260-274 and 95: one color view per swapchain image, one depth view.
CreateImageViews ==
    /\ cpc = "views"
    /\ handles' = [handles EXCEPT !["colorImageViews"] = numImages,
                                  !["depthImageView"] = 1]
    /\ evlog' = Create(Create(evlog, "colorImageViews"), "depthImageView")
    /\ cpc' = "renderpass"
    /\ UNCHANGED <<window, host, phyDevice, queues, queueInfos, surfaceCaps,
                   requestedImages, numImages, ctorOutcome, ctorError>>
    /\ UNCHANGED <<frameVars, configVars, platformVars, instanceVars>>

\* Lines 264-273: a call throws after k color views were stored.
CreateImageViewsThrow ==
    /\ cpc = "views"
    /\ \E k \in 0 .. numImages :
          Throw(Held(handles, "colorImageViews", k),
                Logged(evlog, "colorImageViews", k), "api")
    /\ UNCHANGED <<window, host, phyDevice, queues, queueInfos, surfaceCaps,
                   requestedImages, numImages>>
    /\ UNCHANGED <<frameVars, configVars, platformVars, instanceVars>>

\* Lines 275-298 and 96.
CreateRenderPass ==
    /\ cpc = "renderpass"
    /\ handles' = [handles EXCEPT !["renderPass"] = 1]
    /\ evlog' = Create(evlog, "renderPass")
    /\ cpc' = "framebuffers"
    /\ UNCHANGED <<window, host, phyDevice, queues, queueInfos, surfaceCaps,
                   requestedImages, numImages, ctorOutcome, ctorError>>
    /\ UNCHANGED <<frameVars, configVars, platformVars, instanceVars>>

\* Lines 278, 297.
CreateRenderPassThrow ==
    /\ cpc = "renderpass"
    /\ Throw(handles, evlog, "api")
    /\ UNCHANGED <<window, host, phyDevice, queues, queueInfos, surfaceCaps,
                   requestedImages, numImages>>
    /\ UNCHANGED <<frameVars, configVars, platformVars, instanceVars>>

\* Lines 299-311 and 97: one framebuffer per color view.
CreateFramebuffers ==
    /\ cpc = "framebuffers"
    /\ handles' = [handles EXCEPT
                      !["framebuffers"] = handles["colorImageViews"]]
    /\ evlog' = Create(evlog, "framebuffers")
    /\ cpc' = "cmdbuffers"
    /\ UNCHANGED <<window, host, phyDevice, queues, queueInfos, surfaceCaps,
                   requestedImages, numImages, ctorOutcome, ctorError>>
    /\ UNCHANGED <<frameVars, configVars, platformVars, instanceVars>>

\* Lines 300, 309: a call throws after k framebuffers were stored.
CreateFramebuffersThrow ==
    /\ cpc = "framebuffers"
    /\ \E k \in 0 .. (handles["colorImageViews"] - 1) :
          Throw(Held(handles, "framebuffers", k),
                Logged(evlog, "framebuffers", k), "api")
    /\ UNCHANGED <<window, host, phyDevice, queues, queueInfos, surfaceCaps,
                   requestedImages, numImages>>
    /\ UNCHANGED <<frameVars, configVars, platformVars, instanceVars>>

CreateCommandBuffers_ThenShow ==
    /\ cpc = "cmdbuffers"
    /\ handles' = [handles EXCEPT
                      !["commandBuffersGraphics"] = handles["colorImageViews"],
                      !["commandBuffersCompute"] = handles["colorImageViews"],
                      !["commandBuffersTransfer"] = handles["colorImageViews"]]
    /\ evlog' = evlog \o [j \in 1 .. 3 |-> <<"create", Members[13 + j]>>]
    /\ cpc' = "show"
    /\ UNCHANGED <<window, host, phyDevice, queues, queueInfos, surfaceCaps,
                   requestedImages, numImages, ctorOutcome, ctorError>>
    /\ UNCHANGED <<frameVars, configVars, platformVars, instanceVars>>

\* Lines 312-327 and 98: colorImageViews.size() buffers from each pool.
CreateCommandBuffers ==
    /\ cpc = "cmdbuffers"
    /\ handles' = [handles EXCEPT
                      !["commandBuffersGraphics"] = handles["colorImageViews"],
                      !["commandBuffersCompute"] = handles["colorImageViews"],
                      !["commandBuffersTransfer"] = handles["colorImageViews"]]
    /\ evlog' = evlog \o [j \in 1 .. 3 |-> <<"create", Members[13 + j]>>]
    /\ cpc' = "sync"
    /\ UNCHANGED <<window, host, phyDevice, queues, queueInfos, surfaceCaps,
                   requestedImages, numImages, ctorOutcome, ctorError>>
    /\ UNCHANGED <<frameVars, configVars, platformVars, instanceVars>>

\* Lines 318, 322, 326: the allocation after k successful ones throws.
CreateCommandBuffersThrow ==
    /\ cpc = "cmdbuffers"
    /\ \E k \in 0 .. 2 :
          Throw([m \in MemberSet |->
                    IF \E j \in 1 .. k : Members[13 + j] = m
                    THEN handles["colorImageViews"] ELSE handles[m]],
                evlog \o [j \in 1 .. k |-> <<"create", Members[13 + j]>>],
                "api")
    /\ UNCHANGED <<window, host, phyDevice, queues, queueInfos, surfaceCaps,
                   requestedImages, numImages>>
    /\ UNCHANGED <<frameVars, configVars, platformVars, instanceVars>>

CreateSyncPrimitive_FencePerRequested ==
    /\ cpc = "sync"
    /\ handles' = [handles EXCEPT
                      !["presentFences"] = requestedImages,
                      !["presentCompletedSemaphore"] = 1,
                      !["renderCompletedSemaphore"] = 1]
    /\ evlog' = Create(Create(Create(evlog, "presentFences"),
                              "presentCompletedSemaphore"),
                       "renderCompletedSemaphore")
    /\ cpc' = "show"
    /\ UNCHANGED <<window, host, phyDevice, queues, queueInfos, surfaceCaps,
                   requestedImages, numImages, ctorOutcome, ctorError>>
    /\ UNCHANGED <<frameVars, configVars, platformVars, instanceVars>>

\* Lines 328-336 and 99: one signaled fence per color view, two semaphores.
CreateSyncPrimitive ==
    /\ cpc = "sync"
    /\ handles' = [handles EXCEPT
                      !["presentFences"] = handles["colorImageViews"],
                      !["presentCompletedSemaphore"] = 1,
                      !["renderCompletedSemaphore"] = 1]
    /\ evlog' = Create(Create(Create(evlog, "presentFences"),
                              "presentCompletedSemaphore"),
                       "renderCompletedSemaphore")
    /\ cpc' = "show"
    /\ UNCHANGED <<window, host, phyDevice, queues, queueInfos, surfaceCaps,
                   requestedImages, numImages, ctorOutcome, ctorError>>
    /\ UNCHANGED <<frameVars, configVars, platformVars, instanceVars>>

\* Line 332: createFenceUnique throws after k fences; lines 334, 335:
\* createSemaphoreUnique throws after all fences and s semaphores.
CreateSyncPrimitiveThrow ==
    /\ cpc = "sync"
    /\ \E k \in 0 .. handles["colorImageViews"], s \in 0 .. 1 :
          /\ s = 1 => k = handles["colorImageViews"]
          /\ k = handles["colorImageViews"] \/ s = 0
          /\ Throw(Held(Held(handles, "presentFences", k),
                        "presentCompletedSemaphore", s),
                   Logged(Logged(evlog, "presentFences", k),
                          "presentCompletedSemaphore", s), "api")
    /\ UNCHANGED <<window, host, phyDevice, queues, queueInfos, surfaceCaps,
                   requestedImages, numImages>>
    /\ UNCHANGED <<frameVars, configVars, platformVars, instanceVars>>

\* Lines 100-101: PollEvents and ShowWindow; the constructor returns.
ShowWindow ==
    /\ cpc = "show"
    /\ cpc' = "ready"
    /\ ctorOutcome' = "ok"
    /\ UNCHANGED <<window, host, phyDevice, handles, queues, queueInfos,
                   surfaceCaps, requestedImages, numImages, evlog, ctorError>>
    /\ UNCHANGED <<frameVars, configVars, platformVars, instanceVars>>

\* Lines 387-388: ~Device destroys Impl, whose members are destroyed in the
\* reverse order of their declaration.
DestroyDevice ==
    /\ cpc = "ready"
    /\ pc = "idle"
    /\ cpc' = "destroyed"
    /\ evlog' = evlog \o DestroyImpl(handles)
    /\ handles' = NoHandles
    /\ UNCHANGED <<window, host, phyDevice, queues, queueInfos, surfaceCaps,
                   requestedImages, numImages, ctorOutcome, ctorError>>
    /\ UNCHANGED <<frameVars, configVars, platformVars, instanceVars>>

\* The surface extensions the windowing library names on a platform.
ReferenceExts == <<"VK_KHR_surface", "VK_KHR_xcb_surface">>

\* What glfwGetRequiredInstanceExtensions can return: NULL, or the names.
PlatformAnswers ==
    {<<>>, ReferenceExts, <<"VK_KHR_surface", "VK_KHR_win32_surface">>}

\* The lists of memory types of an accelerator, and the type bitmasks of an
\* image's memory requirements (at least one bit set).
MemoryTypeLists == UNION {[1 .. k -> BOOLEAN] : k \in 1 .. MaxMemoryTypes}

MemoryTypeBitmasks == 1 .. (2 ^ MaxMemoryTypes - 1)

\* A platform whose windowing library names ReferenceExts, and an
\* accelerator whose one memory type is device-local.
ReferencePlatform ==
    /\ platformExts = ReferenceExts
    /\ memoryTypes = <<TRUE>>
    /\ memoryTypeBits = 1

\* An instance created by a process in which no thread has called
\* SetAppInfo.
ReferenceInstance ==
    /\ ipc = "done"
    /\ snap = [f \in Fields |->
                 [field |-> f,
                  value |-> (CASE f = "name"  -> "Starlight"
                               [] f = "major" -> VersionMajor
                               [] f = "minor" -> VersionMinor
                               [] OTHER       -> VersionPatch),
                  epoch |-> 0]]
    /\ appInfo = <<ApplicationInfo("Starlight", VersionMajor, VersionMinor,
                                    VersionPatch)>>

NextCtor ==
    \/ CreateInstanceExts
    \/ \E f \in Fields : CreateInstanceGet(f)
    \/ CreateInstanceGetReturn
    \/ CreateInstanceTake
    \/ CreateInstance
    \/ CreateInstanceThrow
    \/ ChooseDevice
    \/ ChooseDeviceNone
    \/ ChooseDeviceThrow
    \/ LogicalDeviceOversubscribed
    \/ LogicalDeviceThrow
    \/ CommandPoolThrow
    \/ LogicalDeviceOk
    \/ CreateSurface
    \/ CreateSurfaceThrow
    \/ CreateSwapchain
    \/ CreateSwapchainClampAbort
    \/ CreateSwapchainThrow
    \/ CreateDepthStencil
    \/ CreateDepthStencilThrow
    \/ CreateImageViews
    \/ CreateImageViewsThrow
    \/ CreateRenderPass
    \/ CreateRenderPassThrow
    \/ CreateFramebuffers
    \/ CreateFramebuffersThrow
    \/ CreateCommandBuffers
    \/ CreateCommandBuffersThrow
    \/ CreateSyncPrimitive
    \/ CreateSyncPrimitiveThrow
    \/ ShowWindow
    \/ DestroyDevice

\* CreateLogicalDevice alone, for every list of queue families.
NextQueue ==
    \/ LogicalDeviceOversubscribed
    \/ LogicalDeviceThrow
    \/ CommandPoolThrow
    \/ LogicalDeviceOk

\* A host and a window, before the constructor runs.
InitCtor ==
    /\ window \in BOOLEAN
    /\ host \in CtorHosts
    /\ platformExts \in PlatformAnswers
    /\ memoryTypes = <<TRUE>>
    /\ memoryTypeBits = 1
    /\ CtorInit
    /\ FrameInit
    /\ ConfigInit

\* A chosen device with any list of queue families that passes the filter of
\* ChoosePhysicalDevice, before CreateLogicalDevice runs.
InitQueue ==
    /\ window = FALSE
    /\ \E fams \in FamilyLists :
          /\ host = <<PhysDevice("discrete", <<>>, fams)>>
          /\ PassesFilter(host[1], FALSE)
    /\ cpc = "logical"
    /\ phyDevice = 1
    /\ handles = [NoHandles EXCEPT !["instance"] = 1]
    /\ queues = NoQueues
    /\ queueInfos = <<>>
    /\ surfaceCaps = NoCaps
    /\ requestedImages = 0
    /\ numImages = 0
    /\ evlog = <<<<"create", "instance">>>>
    /\ ctorOutcome = "running"
    /\ ctorError = "none"
    /\ ReferencePlatform
    /\ extNames = <<>>
    /\ extQueries = 0
    /\ memoryTypeIndex = 0
    /\ ReferenceInstance
    /\ FrameInit
    /\ ConfigInit

\* A constructed windowed device with NumImages swapchain images.
InitFrame ==
    /\ window = TRUE
    /\ host = <<PhysDevice("discrete", <<Heap(TRUE, 2)>>,
                           <<Family(GCT, 3, TRUE)>>)>>
    /\ cpc = "ready"
    /\ phyDevice = 1
    /\ handles = [m \in MemberSet |->
                    IF m \in {"colorImageViews", "framebuffers",
                              "commandBuffersGraphics", "commandBuffersCompute",
                              "commandBuffersTransfer", "presentFences"}
                    THEN NumImages ELSE 1]
    /\ queues = [graphics |-> <<0, 0>>, compute |-> <<0, 1>>,
                 transfer |-> <<0, 2>>]
    /\ queueInfos = <<[family |-> 0, count |-> 3,
                       priorities |-> [j \in 1 .. 3 |-> QueuePriority]]>>
    /\ surfaceCaps = [minImageCount |-> NumImages, maxImageCount |-> NumImages]
    /\ requestedImages = NumImages
    /\ numImages = NumImages
    /\ evlog = [k \in 1 .. Len(Members) |-> <<"create", Members[k]>>]
    /\ ctorOutcome = "ok"
    /\ ctorError = "none"
    /\ ReferencePlatform
    /\ extNames = ReferenceExts
    /\ extQueries = 1
    /\ memoryTypeIndex = 0
    /\ ReferenceInstance
    /\ FrameInit
    /\ ConfigInit

NextFrame ==
    \/ ClearCall
    \/ ClearCapsThrow
    \/ AcquireOk
    \/ AcquireFail
    \/ WaitOutOfRange
    \/ WaitOk
    \/ WaitFail
    \/ RecordOk
    \/ RecordThrow
    \/ ResetOk
    \/ ResetFail
    \/ SubmitOk
    \/ SubmitThrow
    \/ PresentOk
    \/ PresentThrow
    \/ \E c \in Cycles : AcquireSignal(c)
    \/ \E c \in Cycles : GPUStart(c)
    \/ \E i \in Images : GPUFinish(i)
    \/ \E i \in Images : FenceSignal(i)
    \/ \E c \in Cycles : PresentExec(c)
    \/ \E i \in Images : Release(i)

SpecFrame == InitFrame /\ [][NextFrame]_vars

SpecCtor == InitCtor /\ [][NextCtor]_vars

SpecQueue == InitQueue /\ [][NextQueue]_vars

\* The hosts with one accelerator that has one queue family.
DeviceHosts == {<<d>> : d \in {c \in CtorDevices : Len(c.families) = 1}}

\* A host and a window, before the constructor runs.
InitDevice ==
    /\ window \in BOOLEAN
    /\ host \in DeviceHosts
    /\ ReferencePlatform
    /\ CtorInit
    /\ FrameInit
    /\ ConfigInit

\* The life of a Device: its construction, Clear calls on it, headless or
\* windowed, and its destruction.
NextDevice ==
    \/ NextCtor
    \/ NextFrame
    \/ ClearNullSurfaceCrash
    \/ AcquireNullSwapchainCrash

SpecDevice == InitDevice /\ [][NextDevice]_vars

\* An instance, before ChoosePhysicalDevice runs on a host with an
\* accelerator of the best or of the least type, with the most memory and
\* any list of queue families.
InitChoose ==
    /\ window \in BOOLEAN
    /\ \E t \in {"discrete", "other"}, fams \in PresentFamilyLists :
          host \in ChooseHosts(PhysDevice(t, <<Heap(TRUE, 3)>>, fams))
    /\ cpc = "choose"
    /\ phyDevice = 0
    /\ handles = [NoHandles EXCEPT !["instance"] = 1]
    /\ queues = NoQueues
    /\ queueInfos = <<>>
    /\ surfaceCaps = NoCaps
    /\ requestedImages = 0
    /\ numImages = 0
    /\ evlog = <<<<"create", "instance">>>>
    /\ ctorOutcome = "running"
    /\ ctorError = "none"
    /\ ReferencePlatform
    /\ extNames = (IF window THEN ReferenceExts ELSE <<>>)
    /\ extQueries = (IF window THEN 1 ELSE 0)
    /\ memoryTypeIndex = 0
    /\ ReferenceInstance
    /\ FrameInit
    /\ ConfigInit

\* ChoosePhysicalDevice alone.
NextChoose ==
    \/ ChooseDevice
    \/ ChooseDeviceNone
    \/ ChooseDeviceThrow

SpecChoose == InitChoose /\ [][NextChoose]_vars

\* A windowed construction that has created its swapchain, before
\* CreateDepthStencil runs, for every list of memory types of the chosen
\* accelerator and every type bitmask of the image's requirements.
InitDepth ==
    /\ window = TRUE
    /\ host = <<PhysDevice("discrete", <<Heap(TRUE, 2)>>,
                           <<Family(GCT, 3, TRUE)>>)>>
    /\ cpc = "depth"
    /\ phyDevice = 1
    /\ handles = [m \in MemberSet |->
                    IF \E k \in 1 .. 7 : Members[k] = m THEN 1 ELSE 0]
    /\ queues = [graphics |-> <<0, 0>>, compute |-> <<0, 1>>,
                 transfer |-> <<0, 2>>]
    /\ queueInfos = <<[family |-> 0, count |-> 3,
                       priorities |-> [j \in 1 .. 3 |-> QueuePriority]]>>
    /\ surfaceCaps = [minImageCount |-> NumImages, maxImageCount |-> NumImages]
    /\ requestedImages = NumImages
    /\ numImages = NumImages
    /\ evlog = [k \in 1 .. 7 |-> <<"create", Members[k]>>]
    /\ ctorOutcome = "running"
    /\ ctorError = "none"
    /\ platformExts = ReferenceExts
    /\ extNames = ReferenceExts
    /\ extQueries = 1
    /\ memoryTypes \in MemoryTypeLists
    /\ memoryTypeBits \in MemoryTypeBitmasks
    /\ memoryTypeIndex = 0
    /\ ReferenceInstance
    /\ FrameInit
    /\ ConfigInit

\* CreateDepthStencil alone.
NextDepth ==
    \/ CreateDepthStencil
    \/ CreateDepthStencilThrow

SpecDepth == InitDepth /\ [][NextDepth]_vars

\* The threads of a process that has constructed no Device.
InitConfig ==
    /\ window = FALSE
    /\ host = <<>>
    /\ ReferencePlatform
    /\ CtorInit
    /\ FrameInit
    /\ ConfigInit

NextConfig ==
    \/ \E t \in Threads, f \in Fields : GetLock(t, f)
    \/ \E t \in Threads : GetReturn(t)
    \/ \E t \in Threads : GetDone(t)
    \/ \E t \in Threads, c \in CallerInfos : SetLock(t, c)
    \/ \E t \in Threads : SetName(t)
    \/ \E t \in Threads : SetMajor(t)
    \/ \E t \in Threads : SetMinor(t)
    \/ \E t \in Threads : SetPatch(t)
    \/ \E t \in Threads : SetUnlock(t)

SpecConfig == InitConfig /\ [][NextConfig]_vars

\* A headless construction on the reference accelerator, in a process whose
\* other threads may call SetAppInfo.
InitSnapshot ==
    /\ window = FALSE
    /\ host = <<ReferenceDevice>>
    /\ ReferencePlatform
    /\ CtorInit
    /\ FrameInit
    /\ ConfigInit

\* CreateInstance on the constructing thread, SetAppInfo on the others.
NextSnapshot ==
    \/ CreateInstanceExts
    \/ \E f \in Fields : CreateInstanceGet(f)
    \/ CreateInstanceGetReturn
    \/ CreateInstanceTake
    \/ CreateInstance
    \/ CreateInstanceThrow
    \/ \E t \in Threads \ {CtorThread}, c \in CallerInfos : SetLock(t, c)
    \/ \E t \in Threads \ {CtorThread} : SetName(t)
    \/ \E t \in Threads \ {CtorThread} : SetMajor(t)
    \/ \E t \in Threads \ {CtorThread} : SetMinor(t)
    \/ \E t \in Threads \ {CtorThread} : SetPatch(t)
    \/ \E t \in Threads \ {CtorThread} : SetUnlock(t)

SpecSnapshot == InitSnapshot /\ [][NextSnapshot]_vars

(***************************************************************************)
(* Claims about the frame operation.                                       *)
(***************************************************************************)
CanonNames == <<"acquire", "wait", "record", "reset", "submit", "present">>

Canon(i) == [k \in 1 .. 6 |-> <<CanonNames[k], i>>]

Position(p) == CHOOSE k \in 1 .. 6 : CanonNames[k] = p

\* C1: the graphics command buffer of index i is re-recorded only while
\* fence i is signaled and no earlier submission of index i is in flight, and
\* at most one submission per image index is in flight at any time.
C1_FenceGuardsReuse ==
    /\ pc = "record" => fence[imageIndex] /\ InFlight(imageIndex) = 0
    /\ \A i \in Images : InFlight(i) <= 1

\* C2: no Clear call deadlocks on its fence: whenever Clear waits for the
\* fence of an index, that fence is signaled or a submission that will signal
\* it is in flight.
C2_FenceWaitReturns ==
    (pc = "wait" /\ imageIndex \in Images)
        => (fence[imageIndex] \/ InFlight(imageIndex) > 0)

\* C3 as stated: every Clear call performs the whole cycle acquire, wait,
\* record, reset, submit, present on one image index, so that whenever a later
\* call can start the present of the current one has been issued.
C3_EveryCallFullCycle ==
    (pc = "idle" /\ calls > 0) => \E i \in Images : steps = Canon(i)

\* C3 amended: the calls of a Clear are made in the order acquire, wait,
\* record, reset, submit, present, all with the same image index; a Clear that
\* returns normally has made all six; a Clear that is still running has made
\* exactly the calls before its current one; a Clear that threw has made a
\* prefix of the six and stopped at the call that threw (none at all when the
\* surface-capabilities query threw).
C3_OrderedCycle ==
    LET n == Len(steps) IN
    /\ n <= 6
    /\ \A k \in 1 .. n : steps[k][1] = CanonNames[k]
    /\ \A k \in 1 .. n : steps[k][2] = steps[1][2]
    /\ (pc = "idle" /\ lastResult = "ok") => n = 6
    /\ pc # "idle" => n = Position(pc) - 1
    /\ (pc = "idle" /\ lastResult = "error")
          => (n = 0 \/ steps[n][1] \in {"record", "submit", "present"})

C3_Witness ==
    /\ pc = "idle"
    /\ lastResult = "ok"
    /\ calls >= 2
    /\ \E i \in Images : steps = Canon(i)

\* C4: every failure inside Clear surfaces to the caller: once a call of the
\* cycle has failed, Clear has ended with an error and made no further call.
C4_ErrorsSurface ==
    failedStep # "none" => (pc = "idle" /\ lastResult = "error")

(***************************************************************************)
(* Claims about the construction.                                          *)
(***************************************************************************)
\* The objects created from the logical device.
DeviceChildren == MemberSet \ {"instance", "lgcDevice", "surface"}

Created(m) == \E k \in DOMAIN evlog : evlog[k] = <<"create", m>>

\* The suitability the specification states: graphics, compute and transfer
\* all present among the families, and with a window a graphics family that
\* can present.
SpecSuitable(dev, windowed) ==
    /\ \A fl \in GCT : \E i \in DOMAIN dev.families :
          fl \in dev.families[i].queueFlags
    /\ windowed => \E i \in DOMAIN dev.families :
          /\ "G" \in dev.families[i].queueFlags
          /\ dev.families[i].present

\* C5: a construction that fails ends with an error at its caller, with every
\* object created by the earlier steps released before that (a child of the
\* logical device while the device still exists), and with nothing created
\* once the release has begun.
C5_AllOrNothing ==
    cpc = "failed" =>
        /\ ctorOutcome = "threw"
        /\ handles = NoHandles
        /\ \A a \in DOMAIN evlog : evlog[a][1] = "create" =>
              \E b \in DOMAIN evlog :
                 /\ b > a
                 /\ evlog[b] = <<"destroy", evlog[a][2]>>
                 /\ evlog[a][2] \in DeviceChildren =>
                       \A d \in 1 .. b : evlog[d] # <<"destroy", "lgcDevice">>
        /\ \A a, b \in DOMAIN evlog :
              (evlog[a][1] = "destroy" /\ evlog[b][1] = "create") => b < a

\* C6: when the host has a suitable accelerator, the chosen one is suitable
\* and its key (type rank, device-local memory) is the greatest among the
\* suitable ones.
C6_ChoosesBestSuitable ==
    (\E j \in DOMAIN host : SpecSuitable(host[j], window)) =>
        /\ ctorError # "NoSuitableDevice"
        /\ phyDevice # 0 =>
              /\ SpecSuitable(host[phyDevice], window)
              /\ \A j \in DOMAIN host : SpecSuitable(host[j], window) =>
                    ~KeyLess(DeviceKey(host[phyDevice]), DeviceKey(host[j]))

\* C7: when the host has no suitable accelerator, no device is chosen, the
\* construction does not go past the choice, and nothing but the instance is
\* ever created.
C7_NoSuitableFails ==
    (\A j \in DOMAIN host : ~SpecSuitable(host[j], window)) =>
        /\ phyDevice = 0
        /\ cpc \in {"instance", "choose", "failed"}
        /\ \A m \in MemberSet \ {"instance"} : ~Created(m)
        /\ queues = NoQueues

\* The number of roles the scan of CreateLogicalDevice maps to family f.
RolesOn(fams, f) == Cardinality({r \in GCT : QueueFamily(fams, r) = f})

\* C8: once CreateLogicalDevice has run: if it created the logical device,
\* every entry of the queue-create list asks for at most the queueCount of
\* its family; and if the roles mapped to some family outnumber its
\* queueCount, it failed with the oversubscription error and created no
\* device, no command pool and no queue handle.
C8_QueueCountsWithinLimits ==
    cpc # "logical" =>
        LET fams == host[phyDevice].families IN
        /\ Created("lgcDevice") =>
              \A k \in DOMAIN queueInfos :
                 queueInfos[k].count <= fams[queueInfos[k].family + 1].queueCount
        /\ (\E f \in 0 .. (Len(fams) - 1) :
               RolesOn(fams, f) > fams[f + 1].queueCount) =>
              /\ ctorError = "Oversubscribed"
              /\ \A m \in MemberSet \ {"instance"} : ~Created(m)
              /\ queueInfos = <<>>
              /\ queues = NoQueues

C8_Witness ==
    /\ cpc = "failed"
    /\ ctorError = "Oversubscribed"
    /\ Len(host[phyDevice].families) = 2
    /\ QueueFamily(host[phyDevice].families, "G")
          # QueueFamily(host[phyDevice].families, "C")

\* C9: when the three roles map to one family, one queue is requested from
\* it, the three role handles are the same queue, and the construction does
\* not fail for lack of queues.
C9_SharedFamilyOneQueue ==
    LET fams == host[phyDevice].families
        f == QueueFamily(fams, "G")
    IN  (/\ cpc # "logical"
         /\ QueueFamily(fams, "C") = f
         /\ QueueFamily(fams, "T") = f
         /\ ctorError # "api")
        => /\ ctorError = "none"
           /\ queueInfos = <<[family |-> f, count |-> 1,
                              priorities |-> <<QueuePriority>>]>>
           /\ queues.graphics # <<>>
           /\ queues.graphics = queues.compute
           /\ queues.compute = queues.transfer

\* C10: the image count asked of the swapchain is at least minImageCount, at
\* most maxImageCount when the surface has a limit, and at least 2 when the
\* surface supports 2 images.
C10_ImageCountWithinCaps ==
    Created("swapchain") =>
        /\ surfaceCaps.minImageCount <= requestedImages
        /\ surfaceCaps.maxImageCount # 0 =>
              requestedImages <= surfaceCaps.maxImageCount
        /\ (surfaceCaps.maxImageCount = 0 \/ surfaceCaps.maxImageCount >= 2) =>
              requestedImages >= 2

(***************************************************************************)
(* Claims about the constructed device.                                    *)
(***************************************************************************)
\* The members that hold one object per swapchain image.
PerImageMembers ==
    {"colorImageViews", "framebuffers", "presentFences",
     "commandBuffersGraphics", "commandBuffersCompute",
     "commandBuffersTransfer"}

\* The members that exist only for presentation.
PresentationMembers ==
    MemberSet \ {"instance", "lgcDevice", "commandPoolGraphics",
                 "commandPoolCompute", "commandPoolTransfer"}

\* C11: on a constructed windowed device, before and after any number of
\* Clear calls, each per-image member holds as many objects as the
\* swapchain has images (3 times that many command buffers in all), and the
\* two semaphore members hold one semaphore each.
C11_PerImageCounts ==
    (window /\ cpc = "ready") =>
        /\ numImages >= 1
        /\ \A m \in PerImageMembers : handles[m] = numImages
        /\ handles["commandBuffersGraphics"] + handles["commandBuffersCompute"]
              + handles["commandBuffersTransfer"] = 3 * numImages
        /\ handles["presentCompletedSemaphore"]
              + handles["renderCompletedSemaphore"] = 2

C11_Witness ==
    /\ window /\ cpc = "ready"
    /\ calls >= 2 /\ pc = "idle" /\ lastResult = "ok"
    /\ handles["framebuffers"] = NumImages
    /\ handles["presentFences"] = NumImages

\* C12: a headless construction on a host with a compute-capable
\* accelerator, where no driver call fails, succeeds; the device holds an
\* instance, a physical device, a logical device, three queue handles and
\* three command pools and no presentation object, and the windowing library
\* is not called.
C12_HeadlessSucceeds ==
    (/\ ~window
     /\ \E j \in DOMAIN host : \E i \in DOMAIN host[j].families :
           "C" \in host[j].families[i].queueFlags
     /\ cpc \in {"ready", "failed"}
     /\ ctorError # "api")
    => /\ cpc = "ready" /\ ctorOutcome = "ok"
       /\ phyDevice # 0
       /\ \A m \in MemberSet \ PresentationMembers : handles[m] = 1
       /\ \A m \in PresentationMembers : handles[m] = 0 /\ ~Created(m)
       /\ queues.graphics # <<>> /\ queues.compute # <<>>
       /\ queues.transfer # <<>>
       /\ ctorError # "platform"

InRange(c) ==
    /\ c.major \in 0 .. (2 ^ MajorBits - 1)
    /\ c.minor \in 0 .. (2 ^ MinorBits - 1)
    /\ c.patch \in 0 .. (2 ^ PatchBits - 1)

\* The threads inside the critical section of a getter, of SetAppInfo.
Reading == {t \in Threads : tpc[t] = "get"}

Writing ==
    {t \in Threads : tpc[t] \in {"name", "major", "minor", "patch", "unlock"}}

\* C14: a getter that runs after a SetAppInfo call with values in the
\* declared ranges has returned, and before any later SetAppInfo call,
\* returns the value the caller gave for its field.
C14_RoundTrip ==
    \A t \in Threads :
        (/\ tpc[t] = "got"
         /\ tret[t].epoch >= 1
         /\ InRange(setLog[tret[t].epoch]))
        => tret[t].value = setLog[tret[t].epoch][tret[t].field]

C14_Witness ==
    \E t \in Threads :
        /\ tpc[t] = "got"
        /\ tret[t].epoch = 2
        /\ tret[t].field = "patch"
        /\ tret[t].value = 2 ^ PatchBits - 1
        /\ setLog[1] # setLog[2]

\* C15: SetAppInfo is inside its critical section only while no getter and
\* no other SetAppInfo is inside one; and what a getter returns is the
\* initial value of its variable or the value one SetAppInfo call that has
\* returned stored in it.
C15_ReadersWriterLock ==
    /\ Cardinality(Writing) <= 1
    /\ Writing # {} => Reading = {}
    /\ \A t \in Threads : tpc[t] = "got" =>
          tret[t].value =
             IF tret[t].epoch = 0
             THEN (CASE tret[t].field = "name" -> "Starlight"
                     [] tret[t].field = "major" -> VersionMajor
                     [] tret[t].field = "minor" -> VersionMinor
                     [] OTHER -> VersionPatch)
             ELSE AppInfo(setLog[tret[t].epoch])[tret[t].field]

C15_Witness ==
    /\ Cardinality(Reading) >= 2
    /\ setLog # <<>>

\* C16: the versions the getters return, and the stored ones, are within
\* 0..1023, 0..1023 and 0..4095 whatever was given to SetAppInfo; before the
\* first SetAppInfo the getters return "Starlight", 0, 0 and 0.
C16_VersionRanges ==
    /\ appMajor \in 0 .. 1023
    /\ appMinor \in 0 .. 1023
    /\ appPatch \in 0 .. 4095
    /\ \A t \in Threads : tpc[t] = "got" =>
          /\ tret[t].field = "major" => tret[t].value \in 0 .. 1023
          /\ tret[t].field = "minor" => tret[t].value \in 0 .. 1023
          /\ tret[t].field = "patch" => tret[t].value \in 0 .. 4095
          /\ tret[t].epoch = 0 =>
                tret[t].value = (CASE tret[t].field = "name" -> "Starlight"
                                   [] OTHER -> 0)

C16_Witness ==
    \E t \in Threads :
        /\ tpc[t] = "got"
        /\ tret[t].epoch >= 1
        /\ ~InRange(setLog[tret[t].epoch])
        /\ tret[t].field = "major"
        /\ tret[t].value = 1

(***************************************************************************)
(* Claims about the filter of ChoosePhysicalDevice.                        *)
(***************************************************************************)
\* C17: the accelerator ChoosePhysicalDevice returns has graphics, compute
\* and transfer, all three, among the flags of its queue families, with and
\* without a window.
C17_AllThreeCapabilities ==
    phyDevice # 0 =>
        GCT \subseteq QueueFlagsUnion(host[phyDevice].families,
                                      Len(host[phyDevice].families))

\* C18: with a window, the accelerator ChoosePhysicalDevice returns has a
\* queue family with the graphics flag that supports presentation.
C18_GraphicsFamilyPresents ==
    (window /\ phyDevice # 0) =>
        \E i \in DOMAIN host[phyDevice].families :
            /\ "G" \in host[phyDevice].families[i].queueFlags
            /\ host[phyDevice].families[i].present

\* An accelerator with a greater key than the reference one, whose only
\* presentation-capable families lack the graphics flag, is passed over.
C18_Witness ==
    /\ window
    /\ Len(host) = 2
    /\ phyDevice = 2
    /\ KeyLess(DeviceKey(host[2]), DeviceKey(host[1]))
    /\ \E i \in DOMAIN host[1].families : host[1].families[i].present
    /\ \E i \in DOMAIN host[1].families :
          "G" \in host[1].families[i].queueFlags
    /\ \A i \in DOMAIN host[1].families :
          host[1].families[i].present =>
             "G" \notin host[1].families[i].queueFlags

(***************************************************************************)
(* Claims about the queues and about the order of the construction.        *)
(***************************************************************************)
\* The roles in the order CreateLogicalDevice counts them.
RoleOrder == <<"G", "C", "T">>

\* How many roles counted before role number r share its family.
EarlierOn(fams, r) ==
    Cardinality({e \in 1 .. (r - 1) :
                    QueueFamily(fams, RoleOrder[e])
                       = QueueFamily(fams, RoleOrder[r])})

\* C19: when CreateLogicalDevice creates the device, the queue-create list
\* has one entry for each family some role maps to, asking for as many queues
\* as roles map to it, each with priority 1.0, and no entry for another
\* family; and the handle of each role is retrieved with the family of the
\* role and the number of roles counted before it (graphics, compute,
\* transfer) that share this family, an index below the count asked for.
C19_QueuePerRole ==
    LET fams == host[phyDevice].families IN
    /\ Created("lgcDevice") =>
          /\ \A f \in 0 .. (Len(fams) - 1) :
                Cardinality({k \in DOMAIN queueInfos : queueInfos[k].family = f})
                   = (IF RolesOn(fams, f) > 0 THEN 1 ELSE 0)
          /\ \A k \in DOMAIN queueInfos :
                /\ queueInfos[k].count = RolesOn(fams, queueInfos[k].family)
                /\ Len(queueInfos[k].priorities) = queueInfos[k].count
                /\ \A j \in DOMAIN queueInfos[k].priorities :
                      queueInfos[k].priorities[j] = QueuePriority
    /\ cpc = "ready" =>
          LET q == <<queues.graphics, queues.compute, queues.transfer>> IN
          /\ \A r \in 1 .. 3 :
                /\ q[r] = <<QueueFamily(fams, RoleOrder[r]), EarlierOn(fams, r)>>
                /\ q[r][2] < RolesOn(fams, q[r][1])
          /\ \A r1, r2 \in 1 .. 3 : r1 # r2 => q[r1] # q[r2]

C19_Witness ==
    /\ cpc = "ready"
    /\ queues.graphics = <<0, 0>>
    /\ queues.compute = <<1, 0>>
    /\ queues.transfer = <<0, 1>>
    /\ Len(queueInfos) = 2

\* The objects a windowed construction creates, in the order of creation.
CreationOrder ==
    << "instance", "lgcDevice", "commandPoolGraphics", "commandPoolCompute",
       "commandPoolTransfer", "surface", "swapchain", "depthStencil",
       "depthStencilMemory", "colorImageViews", "depthImageView",
       "renderPass", "framebuffers", "commandBuffersGraphics",
       "commandBuffersCompute", "commandBuffersTransfer", "presentFences",
       "presentCompletedSemaphore", "renderCompletedSemaphore" >>

\* The creations logged so far.
Creations == SelectSeq(evlog, LAMBDA e : e[1] = "create")

\* C20: the objects of a windowed construction are created in the order
\* instance, logical device, command pools, surface, swapchain, depth/stencil
\* image and memory, color and depth views, render pass, framebuffers,
\* command buffers, fences, semaphores, the logical device only once a
\* physical device is chosen; nothing is created after a step failed; and
\* the window is shown only once all of them exist.
C20_ConstructionOrder ==
    window =>
        /\ Len(Creations) <= Len(CreationOrder)
        /\ \A k \in DOMAIN Creations : Creations[k][2] = CreationOrder[k]
        /\ Len(Creations) >= 2 => phyDevice # 0
        /\ \A a, b \in DOMAIN evlog :
              (evlog[a][1] = "destroy" /\ evlog[b][1] = "create") => b < a
        /\ cpc = "ready" =>
              /\ Len(Creations) = Len(CreationOrder)
              /\ \A m \in MemberSet : handles[m] >= 1

C20_Witness ==
    /\ window
    /\ cpc = "ready"
    /\ Len(Creations) = Len(CreationOrder)
    /\ numImages = 3

(***************************************************************************)
(* Claims about the destruction.                                           *)
(***************************************************************************)
\* The destructions logged so far.
Destructions == SelectSeq(evlog, LAMBDA e : e[1] = "destroy")

\* The place of an object in the release order: 1 for the fences, the
\* semaphores and the command buffers, and then one place each for the
\* framebuffers, the render pass, the image views, the depth/stencil image,
\* the swapchain, the surface, the command pools, the logical device, the
\* instance and the window reference; 0 for the depth/stencil memory.
ReleaseStage(m) ==
    CASE m \in {"presentFences", "presentCompletedSemaphore",
                "renderCompletedSemaphore", "commandBuffersGraphics",
                "commandBuffersCompute", "commandBuffersTransfer"} -> 1
      [] m = "framebuffers" -> 2
      [] m = "renderPass" -> 3
      [] m \in {"colorImageViews", "depthImageView"} -> 4
      [] m = "depthStencil" -> 5
      [] m = "swapchain" -> 6
      [] m = "surface" -> 7
      [] m \in {"commandPoolGraphics", "commandPoolCompute",
                "commandPoolTransfer"} -> 8
      [] m = "lgcDevice" -> 9
      [] m = "instance" -> 10
      [] m = "window" -> 11
      [] OTHER -> 0

\* C21: when a constructed Device has been destroyed, every object it
\* created has been released once, in the order fences, semaphores and
\* command buffers, framebuffers, render pass, image views, depth/stencil
\* image, swapchain, surface, command pools, logical device, instance, and
\* the window reference is dropped after all of them.
C21_ReverseDependencyOrder ==
    cpc = "destroyed" =>
        /\ handles = NoHandles
        /\ \A k \in DOMAIN Creations :
              Cardinality({d \in DOMAIN Destructions :
                              Destructions[d][2] = Creations[k][2]}) = 1
        /\ \A a, b \in DOMAIN Destructions :
              (/\ a < b
               /\ ReleaseStage(Destructions[a][2]) > 0
               /\ ReleaseStage(Destructions[b][2]) > 0)
              => ReleaseStage(Destructions[a][2])
                    <= ReleaseStage(Destructions[b][2])
        /\ window => Destructions[Len(Destructions)] = <<"destroy", "window">>

C21_Witness ==
    /\ cpc = "destroyed"
    /\ window
    /\ Len(Creations) = Len(CreationOrder)
    /\ Len(Destructions) = Len(CreationOrder) + 1

\* C22: on every path, a construction that fails part-way included, no
\* object created from the logical device (command pool, command buffer,
\* swapchain, image, memory, image view, render pass, framebuffer, fence,
\* semaphore) is released after the logical device has been released.
C22_DeviceOutlivesChildren ==
    \A a, b \in DOMAIN evlog :
        (/\ evlog[a] = <<"destroy", "lgcDevice">>
         /\ evlog[b][1] = "destroy"
         /\ evlog[b][2] \in DeviceChildren)
        => b < a

(***************************************************************************)
(* Claims about the roles of the queue families.                           *)
(***************************************************************************)
\* C26: once CreateLogicalDevice has bound the three roles on the
\* accelerator ChoosePhysicalDevice accepted, the family of each role has
\* the capability flag of the role: graphics for queueGraphics, compute for
\* queueCompute, transfer for queueTransfer.
C26_RoleFamilyHasCapability ==
    queues # NoQueues =>
        LET fams == host[phyDevice].families IN
        /\ "G" \in fams[queues.graphics[1] + 1].queueFlags
        /\ "C" \in fams[queues.compute[1] + 1].queueFlags
        /\ "T" \in fams[queues.transfer[1] + 1].queueFlags

(***************************************************************************)
(* Claims about the state Clear leaves behind.                             *)
(***************************************************************************)
\* C28: between Clear calls, whatever the earlier calls did, every fence
\* that is unsignaled has exactly one submission in flight that will signal
\* it, and no image is acquired without having been presented.
C28_IdleStateConsistent ==
    (pc = "idle" /\ lastResult # "crashed") =>
        \A i \in Images :
            /\ ~fence[i] => InFlight(i) = 1
            /\ image[i] # "acquired"

\* C29: whenever Clear is about to use imageIndex (to select the fence, the
\* command buffer or the framebuffer, or to present), the acquire call of
\* the same Clear has succeeded and has stored that index, and the index is
\* one of a fence the device holds.
C29_IndexFromAcquire ==
    pc \in {"wait", "record", "reset", "submit", "present"} =>
        /\ imageIndex \in FenceIndices
        /\ imageIndex < numImages
        /\ failedStep # "acquire"
        /\ steps # <<>>
        /\ steps[1] = <<"acquire", imageIndex>>
        /\ image[imageIndex] = "acquired"

\* C30: once the Device has been destroyed, no submission of any image
\* index is still executing or has its fence signal outstanding, and no
\* present is still waiting for its rendering.
C30_DestroyedWhenIdle ==
    cpc = "destroyed" =>
        /\ \A i \in Images : InFlight(i) = 0
        /\ \A c \in Cycles :
              sub[c] \notin {"waiting", "running"} /\ prs[c] # "waiting"

(***************************************************************************)
(* Claims about the depth/stencil memory and the instance extensions.      *)
(***************************************************************************)
\* Bit i of a type bitmask.
BitSet(bits, i) == (bits \div (2 ^ i)) % 2 = 1

\* The memory types the image may be bound to and that are device-local.
EligibleTypes ==
    {i \in 0 .. (Len(memoryTypes) - 1) :
        BitSet(memoryTypeBits, i) /\ memoryTypes[i + 1]}

C25_ExtensionQuery ==
    /\ ~window => extQueries = 0 /\ extNames = <<>>
    /\ window => extQueries <= 1
    /\ (window /\ Created("instance")) =>
          extQueries = 1 /\ extNames = platformExts /\ extNames # <<>>
    /\ (window /\ platformExts = <<>> /\ cpc # "instance") =>
          /\ cpc = "failed"
          /\ ctorOutcome = "threw"
          /\ ctorError = "platform"
          /\ extQueries = 1
          /\ evlog \in {<<>>, <<<<"destroy", "window">>>>}

C25_Witness ==
    /\ window
    /\ platformExts = <<>>
    /\ cpc = "failed"
    /\ ctorError = "platform"
    /\ extQueries = 1

(***************************************************************************)
(* Claims about the two semaphores.                                        *)
(***************************************************************************)
\* C23: in every interleaving of Clear calls with the device and the
\* presentation engine, the submission of a call starts its
\* color-attachment output only once the acquire of the same call has
\* signaled presentCompletedSemaphore, the image of a call is presented
\* only once the submission of the same call has finished, and no wait has
\* consumed the signal of another call.
C23_SemaphoresOrderEachCycle ==
    /\ \A c \in Cycles : sub[c] \in {"running", "done"} => acq[c] = "done"
    /\ \A c \in Cycles : prs[c] = "done" => sub[c] = "done"
    /\ ~crossCycle

\* C27: whenever Clear is at its acquire call, presentCompletedSemaphore
\* is unsignaled and no acquire signal and no submission's wait of an
\* earlier call is outstanding on it; whenever Clear is at its submit call,
\* renderCompletedSemaphore is unsignaled and every earlier call that
\* submitted has had its submission finished and its present executed.
C27_SemaphoresFreeWhenReused ==
    /\ pc = "acquire" =>
          /\ semPC = 0
          /\ \A c \in Cycles : acq[c] # "pending" /\ sub[c] # "waiting"
    /\ pc = "submit" =>
          /\ semRC = 0
          /\ \A c \in Cycles :
                sub[c] \notin {"waiting", "running"} /\ prs[c] # "waiting"

(***************************************************************************)
(* Claims about the scan of the queue families.                            *)
(***************************************************************************)
\* The indices of the families that have the flag.
FamiliesWith(fams, flag) ==
    {i \in 0 .. (Len(fams) - 1) : flag \in fams[i + 1].queueFlags}

\* The highest index of a family that has the flag, 0 when none has it.
LastWith(fams, flag) ==
    IF FamiliesWith(fams, flag) = {} THEN 0
    ELSE CHOOSE i \in FamiliesWith(fams, flag) :
            \A j \in FamiliesWith(fams, flag) : j <= i

\* The list with every flag but the given one taken from every family.
OnlyFlag(fams, flag) ==
    [i \in DOMAIN fams |->
        [fams[i] EXCEPT !.queueFlags = @ \cap {flag}]]

\* The list with every flag but the given one added to every family.
OtherFlagsEverywhere(fams, flag) ==
    [i \in DOMAIN fams |->
        [fams[i] EXCEPT !.queueFlags = @ \cup (GCT \ {flag})]]

\* The family each role was given, in the order of RoleOrder.
RoleFamilies == <<queues.graphics[1], queues.compute[1], queues.transfer[1]>>

\* C32: once CreateLogicalDevice has retrieved the three queues, each role
\* has the highest-index family that has the flag of the role, and family 0
\* when no family has it; and the family of a role is the one the scan
\* gives when the flags of the other two roles are taken from, or added to,
\* every family.
C32_LastMatchWins ==
    queues # NoQueues =>
        LET fams == host[phyDevice].families IN
        \A r \in 1 .. 3 :
            /\ RoleFamilies[r] = LastWith(fams, RoleOrder[r])
            /\ RoleFamilies[r]
                  = QueueFamily(OnlyFlag(fams, RoleOrder[r]), RoleOrder[r])
            /\ RoleFamilies[r]
                  = QueueFamily(OtherFlagsEverywhere(fams, RoleOrder[r]),
                                RoleOrder[r])

C32_Witness ==
    /\ cpc = "ready"
    /\ Cardinality(FamiliesWith(host[phyDevice].families, "G")) = 2
    /\ FamiliesWith(host[phyDevice].families, "T") = {}
    /\ queues.graphics[1] = 1
    /\ queues.compute[1] = 0
    /\ queues.transfer[1] = 0

(***************************************************************************)
(* Claims about the application info given to the driver.                  *)
(***************************************************************************)
\* The vk::ApplicationInfo of the application info as it is after the first
\* e calls of SetAppInfo that returned, the initial one when e is 0.
InfoAfter(e) ==
    IF e = 0
    THEN ApplicationInfo("Starlight", VersionMajor, VersionMinor, VersionPatch)
    ELSE LET i == AppInfo(setLog[e])
         IN  ApplicationInfo(i.name, UInt16(i.major), UInt16(i.minor),
                             UInt16(i.patch))

\* C31: the application info CreateInstance gives to the driver is the
\* initial one or the one of a single SetAppInfo call that returned: name,
\* major, minor and patch are never from different calls, also when another
\* thread calls SetAppInfo during the construction.
C31_ConsistentSnapshot ==
    \A k \in DOMAIN appInfo :
        \E e \in 0 .. Len(setLog) : appInfo[k] = InfoAfter(e)

====
